---------------------------- MODULE Spec2Model ----------------------------
(***************************************************************************)
(* Verification model of alacritty-simplified.                             *)
(*                                                                         *)
(* Part 1: the ring-buffer Storage of alacritty_terminal/src/grid/         *)
(* storage.rs.  A row is abstracted to one natural number standing for its *)
(* whole cell content; BlankRow is the content of Row::new(columns).       *)
(*                                                                         *)
(* The backing Vec<Row<T>> is kept as its length and its non-blank rows:   *)
(*   v = [n |-> v.len(), rows |-> [i \in the indices of the non-blank rows  *)
(*                                   |-> the content of row i]]            *)
(* with the 0-based physical indices of the source.  Every row that is not *)
(* in the domain of v.rows is blank.  The representation is canonical (no  *)
(* blank row is ever stored), so two vectors are equal exactly when their  *)
(* records are.                                                            *)
(*                                                                         *)
(* Part 2: the lock around the shared Term (window_context.rs).            *)
(*                                                                         *)
(* Part 3: the Display's size and damage tracking (display/mod.rs,         *)
(* display/damage.rs).                                                     *)
(*                                                                         *)
(* Part 4: the conversion of damaged lines into damage rectangles          *)
(* (RenderDamageIterator in display/damage.rs).                            *)
(*                                                                         *)
(* Part 5: keyboard hints (display/hint.rs): the label generator, the     *)
(* hint state, the post-processing of regex matches and the hyperlink      *)
(* iterator.                                                               *)
(*                                                                         *)
(* Part 6: the Scheduler (scheduler.rs) and the event loop around it       *)
(* (event.rs, window_context.rs, Display::request_frame): frame pacing and *)
(* the search while typing.                                                *)
(*                                                                         *)
(* Part 7: the renderable content (display/content.rs): the colors and     *)
(* the alpha of a renderable cell, the cursor, and the iterator.           *)
(*                                                                         *)
(* Part 8: the string shortener (string.rs).                               *)
(*                                                                         *)
(* Part 9: the command-line config overrides (ParsedOptions in cli.rs).    *)
(*                                                                         *)
(* Part 10: the conversion of the SizeInfo for the damage rectangles       *)
(* (From<SizeInfo<f32>> for SizeInfo<u32> in display/mod.rs).              *)
(*                                                                         *)
(* Each part has its own variables and its own specification; the          *)
(* variables of the other parts stay at their idle values.                 *)
(***************************************************************************)
EXTENDS Integers, Sequences, FiniteSets, TLC

VARIABLES
    inner,             \* Storage.inner: the physical vector of rows
    zero,              \* Storage.zero: physical index of the bottommost line
    visible_lines,     \* Storage.visible_lines
    len,               \* Storage.len: number of active rows
    debug_assertions,  \* build configuration: are debug_assert!s compiled in
    status,            \* "ok", "panicked" (the process aborted) or "ub"
    last,              \* the last operation: name, arguments, pre-state, result
    steps,             \* number of operations performed so far
    \* Part 2
    mutex,             \* the FairMutex around the Term: data lock and next token
    term,              \* the shared Term: two fields the writer updates in turn
    io_thread,         \* the PTY I/O thread (writer)
    ui_thread,         \* the UI thread (WindowContext::handle_event)
    \* Part 3
    display,           \* Display: size_info, pending_update, damage_tracker
    ui_config,         \* UiConfig: window padding and dynamic_padding
    display_last,      \* the last Display operation and what it did
    \* Part 4
    render_damage,     \* RenderDamageIterator: size_info, damaged_lines, and its output
    \* Part 5
    hint_labels,       \* HintLabels: alphabet, indices, split_point, and the labels made
    hint_state,        \* HintState: hint, alphabet, matches, labels, keys
    hint_term,         \* the matches the terminal shows for the hint, as found
    hint_last,         \* the last HintState operation and its result
    post_processor,    \* HintPostProcessor: the cells, the regex match, and the result
    hyperlinks_iter,   \* visible_unique_hyperlinks_iter: cells, position, seen, output
    \* Part 6
    scheduler,         \* Scheduler: the queue of pending timers
    now,               \* the clock read by Instant::now()
    proxy,             \* the events sent through the EventLoopProxy, not yet delivered
    scheduler_last,    \* the last Scheduler or event-loop operation and its result
    window_context,    \* WindowContext: dirty, the window's has_frame and requested_redraw
    search_state,      \* SearchState: regex, dfas, focused_match
    \* Part 7
    renderable,        \* RenderableContent: config, display cells, cursor, and its output
    \* Part 8
    str_shortener,     \* StrShortener: text, max_width, shortener, and its output
    \* Part 9
    parsed_options,    \* ParsedOptions.config_options, the config, and the last call
    \* Part 10
    size_info_u32      \* a SizeInfo<f32> and the SizeInfo<u32> made from it

StorageVars == <<inner, zero, visible_lines, len, debug_assertions, status, last, steps>>
SyncVars == <<mutex, term, io_thread, ui_thread>>

DisplayVars == <<display, ui_config, display_last>>

RenderDamageVars == <<render_damage>>

HintLabelsVars == <<hint_labels>>
HintStateVars == <<hint_state, hint_term, hint_last>>
PostProcessorVars == <<post_processor>>
HyperlinksVars == <<hyperlinks_iter>>
SchedulerVars == <<scheduler, now, proxy, scheduler_last>>
EventLoopVars == <<window_context, search_state>>
RenderableVars == <<renderable>>
ShortenerVars == <<str_shortener>>
CliVars == <<parsed_options>>
SizeInfoVars == <<size_info_u32>>

vars == <<StorageVars, SyncVars, DisplayVars, RenderDamageVars, HintLabelsVars,
          HintStateVars, PostProcessorVars, HyperlinksVars,
          SchedulerVars, EventLoopVars, RenderableVars,
          ShortenerVars, CliVars, SizeInfoVars>>

\* The idle values of the parts a specification does not exercise.
StorageIdle ==
    /\ inner = <<>>
    /\ zero = 0
    /\ visible_lines = 0
    /\ len = 0
    /\ debug_assertions = FALSE
    /\ status = "ok"
    /\ last = <<>>
    /\ steps = 0

SyncIdle ==
    /\ mutex = <<>>
    /\ term = <<>>
    /\ io_thread = <<>>
    /\ ui_thread = <<>>

DisplayIdle ==
    /\ display = <<>>
    /\ ui_config = <<>>
    /\ display_last = <<>>

RenderDamageIdle == render_damage = <<>>

HintLabelsIdle == hint_labels = <<>>

HintStateIdle ==
    /\ hint_state = <<>>
    /\ hint_term = <<>>
    /\ hint_last = <<>>

PostProcessorIdle == post_processor = <<>>

HyperlinksIdle == hyperlinks_iter = <<>>

SchedulerIdle ==
    /\ scheduler = <<>>
    /\ now = 0
    /\ proxy = <<>>
    /\ scheduler_last = <<>>

EventLoopIdle ==
    /\ window_context = <<>>
    /\ search_state = <<>>

RenderableIdle == renderable = <<>>

ShortenerIdle == str_shortener = <<>>

CliIdle == parsed_options = <<>>

SizeInfoIdle == size_info_u32 = <<>>

\* For each part, the variables of the other parts and their idle values.
StorageOthers == <<SyncVars, DisplayVars, RenderDamageVars, HintLabelsVars,
    HintStateVars, PostProcessorVars, HyperlinksVars, SchedulerVars,
    EventLoopVars, RenderableVars, ShortenerVars, CliVars,
    SizeInfoVars>>
StorageOthersIdle ==
    /\ SyncIdle
    /\ DisplayIdle
    /\ RenderDamageIdle
    /\ HintLabelsIdle
    /\ HintStateIdle
    /\ PostProcessorIdle
    /\ HyperlinksIdle
    /\ SchedulerIdle
    /\ EventLoopIdle
    /\ RenderableIdle
    /\ ShortenerIdle
    /\ CliIdle
    /\ SizeInfoIdle
SyncOthers == <<StorageVars, DisplayVars, RenderDamageVars, HintLabelsVars,
    HintStateVars, PostProcessorVars, HyperlinksVars, SchedulerVars,
    EventLoopVars, RenderableVars, ShortenerVars, CliVars,
    SizeInfoVars>>
SyncOthersIdle ==
    /\ StorageIdle
    /\ DisplayIdle
    /\ RenderDamageIdle
    /\ HintLabelsIdle
    /\ HintStateIdle
    /\ PostProcessorIdle
    /\ HyperlinksIdle
    /\ SchedulerIdle
    /\ EventLoopIdle
    /\ RenderableIdle
    /\ ShortenerIdle
    /\ CliIdle
    /\ SizeInfoIdle
DisplayOthers == <<StorageVars, SyncVars, RenderDamageVars, HintLabelsVars,
    HintStateVars, PostProcessorVars, HyperlinksVars, SchedulerVars,
    EventLoopVars, RenderableVars, ShortenerVars, CliVars,
    SizeInfoVars>>
DisplayOthersIdle ==
    /\ StorageIdle
    /\ SyncIdle
    /\ RenderDamageIdle
    /\ HintLabelsIdle
    /\ HintStateIdle
    /\ PostProcessorIdle
    /\ HyperlinksIdle
    /\ SchedulerIdle
    /\ EventLoopIdle
    /\ RenderableIdle
    /\ ShortenerIdle
    /\ CliIdle
    /\ SizeInfoIdle
RenderDamageOthers == <<StorageVars, SyncVars, DisplayVars, HintLabelsVars, HintStateVars,
    PostProcessorVars, HyperlinksVars, SchedulerVars, EventLoopVars,
    RenderableVars, ShortenerVars, CliVars, SizeInfoVars>>
RenderDamageOthersIdle ==
    /\ StorageIdle
    /\ SyncIdle
    /\ DisplayIdle
    /\ HintLabelsIdle
    /\ HintStateIdle
    /\ PostProcessorIdle
    /\ HyperlinksIdle
    /\ SchedulerIdle
    /\ EventLoopIdle
    /\ RenderableIdle
    /\ ShortenerIdle
    /\ CliIdle
    /\ SizeInfoIdle
HintLabelsOthers == <<StorageVars, SyncVars, DisplayVars, RenderDamageVars, HintStateVars,
    PostProcessorVars, HyperlinksVars, SchedulerVars, EventLoopVars,
    RenderableVars, ShortenerVars, CliVars, SizeInfoVars>>
HintLabelsOthersIdle ==
    /\ StorageIdle
    /\ SyncIdle
    /\ DisplayIdle
    /\ RenderDamageIdle
    /\ HintStateIdle
    /\ PostProcessorIdle
    /\ HyperlinksIdle
    /\ SchedulerIdle
    /\ EventLoopIdle
    /\ RenderableIdle
    /\ ShortenerIdle
    /\ CliIdle
    /\ SizeInfoIdle
HintStateOthers == <<StorageVars, SyncVars, DisplayVars, RenderDamageVars, HintLabelsVars,
    PostProcessorVars, HyperlinksVars, SchedulerVars, EventLoopVars,
    RenderableVars, ShortenerVars, CliVars, SizeInfoVars>>
HintStateOthersIdle ==
    /\ StorageIdle
    /\ SyncIdle
    /\ DisplayIdle
    /\ RenderDamageIdle
    /\ HintLabelsIdle
    /\ PostProcessorIdle
    /\ HyperlinksIdle
    /\ SchedulerIdle
    /\ EventLoopIdle
    /\ RenderableIdle
    /\ ShortenerIdle
    /\ CliIdle
    /\ SizeInfoIdle
PostProcessorOthers == <<StorageVars, SyncVars, DisplayVars, RenderDamageVars, HintLabelsVars,
    HintStateVars, HyperlinksVars, SchedulerVars, EventLoopVars,
    RenderableVars, ShortenerVars, CliVars, SizeInfoVars>>
PostProcessorOthersIdle ==
    /\ StorageIdle
    /\ SyncIdle
    /\ DisplayIdle
    /\ RenderDamageIdle
    /\ HintLabelsIdle
    /\ HintStateIdle
    /\ HyperlinksIdle
    /\ SchedulerIdle
    /\ EventLoopIdle
    /\ RenderableIdle
    /\ ShortenerIdle
    /\ CliIdle
    /\ SizeInfoIdle
HyperlinksOthers == <<StorageVars, SyncVars, DisplayVars, RenderDamageVars, HintLabelsVars,
    HintStateVars, PostProcessorVars, SchedulerVars, EventLoopVars,
    RenderableVars, ShortenerVars, CliVars, SizeInfoVars>>
HyperlinksOthersIdle ==
    /\ StorageIdle
    /\ SyncIdle
    /\ DisplayIdle
    /\ RenderDamageIdle
    /\ HintLabelsIdle
    /\ HintStateIdle
    /\ PostProcessorIdle
    /\ SchedulerIdle
    /\ EventLoopIdle
    /\ RenderableIdle
    /\ ShortenerIdle
    /\ CliIdle
    /\ SizeInfoIdle
SchedulerOthers == <<StorageVars, SyncVars, DisplayVars, RenderDamageVars, HintLabelsVars,
    HintStateVars, PostProcessorVars, HyperlinksVars, EventLoopVars,
    RenderableVars, ShortenerVars, CliVars, SizeInfoVars>>
SchedulerOthersIdle ==
    /\ StorageIdle
    /\ SyncIdle
    /\ DisplayIdle
    /\ RenderDamageIdle
    /\ HintLabelsIdle
    /\ HintStateIdle
    /\ PostProcessorIdle
    /\ HyperlinksIdle
    /\ EventLoopIdle
    /\ RenderableIdle
    /\ ShortenerIdle
    /\ CliIdle
    /\ SizeInfoIdle
EventLoopOthers == <<StorageVars, SyncVars, DisplayVars, RenderDamageVars, HintLabelsVars,
    HintStateVars, PostProcessorVars, HyperlinksVars, RenderableVars,
    ShortenerVars, CliVars, SizeInfoVars>>
EventLoopOthersIdle ==
    /\ StorageIdle
    /\ SyncIdle
    /\ DisplayIdle
    /\ RenderDamageIdle
    /\ HintLabelsIdle
    /\ HintStateIdle
    /\ PostProcessorIdle
    /\ HyperlinksIdle
    /\ RenderableIdle
    /\ ShortenerIdle
    /\ CliIdle
    /\ SizeInfoIdle
RenderableOthers == <<StorageVars, SyncVars, DisplayVars, RenderDamageVars, HintLabelsVars,
    HintStateVars, PostProcessorVars, HyperlinksVars, SchedulerVars,
    EventLoopVars, ShortenerVars, CliVars, SizeInfoVars>>
RenderableOthersIdle ==
    /\ StorageIdle
    /\ SyncIdle
    /\ DisplayIdle
    /\ RenderDamageIdle
    /\ HintLabelsIdle
    /\ HintStateIdle
    /\ PostProcessorIdle
    /\ HyperlinksIdle
    /\ SchedulerIdle
    /\ EventLoopIdle
    /\ ShortenerIdle
    /\ CliIdle
    /\ SizeInfoIdle
ShortenerOthers == <<StorageVars, SyncVars, DisplayVars, RenderDamageVars, HintLabelsVars,
    HintStateVars, PostProcessorVars, HyperlinksVars, SchedulerVars,
    EventLoopVars, RenderableVars, CliVars, SizeInfoVars>>
ShortenerOthersIdle ==
    /\ StorageIdle
    /\ SyncIdle
    /\ DisplayIdle
    /\ RenderDamageIdle
    /\ HintLabelsIdle
    /\ HintStateIdle
    /\ PostProcessorIdle
    /\ HyperlinksIdle
    /\ SchedulerIdle
    /\ EventLoopIdle
    /\ RenderableIdle
    /\ CliIdle
    /\ SizeInfoIdle
CliOthers == <<StorageVars, SyncVars, DisplayVars, RenderDamageVars, HintLabelsVars,
    HintStateVars, PostProcessorVars, HyperlinksVars, SchedulerVars,
    EventLoopVars, RenderableVars, ShortenerVars, SizeInfoVars>>
CliOthersIdle ==
    /\ StorageIdle
    /\ SyncIdle
    /\ DisplayIdle
    /\ RenderDamageIdle
    /\ HintLabelsIdle
    /\ HintStateIdle
    /\ PostProcessorIdle
    /\ HyperlinksIdle
    /\ SchedulerIdle
    /\ EventLoopIdle
    /\ RenderableIdle
    /\ ShortenerIdle
    /\ SizeInfoIdle
SizeInfoOthers == <<StorageVars, SyncVars, DisplayVars, RenderDamageVars, HintLabelsVars,
    HintStateVars, PostProcessorVars, HyperlinksVars, SchedulerVars,
    EventLoopVars, RenderableVars, ShortenerVars, CliVars>>
SizeInfoOthersIdle ==
    /\ StorageIdle
    /\ SyncIdle
    /\ DisplayIdle
    /\ RenderDamageIdle
    /\ HintLabelsIdle
    /\ HintStateIdle
    /\ PostProcessorIdle
    /\ HyperlinksIdle
    /\ SchedulerIdle
    /\ EventLoopIdle
    /\ RenderableIdle
    /\ ShortenerIdle
    /\ CliIdle

----------------------------------------------------------------------------
(* Program constant and the bounds of the model. *)

MAX_CACHE_SIZE == 1000

\* with_capacity is called with 1..MaxVisible visible lines.
MaxVisible == 2
\* Rows are written with contents 1..MaxVal (0 is the blank row).
MaxVal == 1
\* Line counts passed to grow/shrink/initialize/rotate range over 0..MaxCount.
MaxCount == 2
\* Number of operations in one run.
MaxSteps == 3

BlankRow == 0
Contents == 0 .. MaxVal

\* The value standing for a usize that wrapped around to just below 2^64: it
\* is larger than the length of any vector.
WRAPPED == -1

Max(a, b) == IF a >= b THEN a ELSE b

----------------------------------------------------------------------------
(* Vec helpers. *)

\* Vec::new()
VecNew == [n |-> 0, rows |-> [i \in {} |-> BlankRow]]

\* v.len()
VecLen(v) == v.n

\* v[i], for i < v.len()
VecGet(v, i) == IF i \in DOMAIN v.rows THEN v.rows[i] ELSE BlankRow

\* The vector of length n with the rows f[i], i \in DOMAIN f (blank ones
\* are dropped, which keeps the representation canonical).
VecOf(n, f) ==
    [n |-> n, rows |-> [i \in {j \in DOMAIN f : f[j] # BlankRow} |-> f[i]]]

\* v[i] = row, for i < v.len()
VecSet(v, i, row) ==
    VecOf(v.n, [j \in DOMAIN v.rows \cup {i} |-> IF j = i THEN row ELSE v.rows[j]])

\* Vec::resize_with(n, || Row::new(columns)) for n >= v.len(): append blanks.
ResizeWithBlank(v, n) == [v EXCEPT !.n = n]

\* Vec::truncate(n): keeps the first n elements, a no-op when n >= v.len().
VecTruncate(v, n) ==
    IF n >= v.n
    THEN v
    ELSE VecOf(n, [j \in {i \in DOMAIN v.rows : i < n} |-> v.rows[j]])

\* slice::rotate_left(mid), for mid <= v.len(): the element at index mid
\* becomes the first, so the new element j is the old (j + mid) mod n.
RotateLeft(v, mid) ==
    VecOf(v.n, [j \in {(i - mid) % v.n : i \in DOMAIN v.rows} |->
                  v.rows[(j + mid) % v.n]])

\* The vector holding the rows of the sequence q, in order.
VecFromSeq(q) ==
    VecOf(Len(q), [j \in 0 .. (Len(q) - 1) |-> q[j + 1]])

----------------------------------------------------------------------------
(* The Storage methods as functions of a storage value                      *)
(*   s = [inner, zero, visible_lines, len].                                 *)

\* The current storage value.
Self ==
    [inner |-> inner, zero |-> zero, visible_lines |-> visible_lines, len |-> len]

\* Storage::with_capacity(visible_lines, columns)
with_capacity(lines) ==
    [inner |-> ResizeWithBlank(VecNew, lines), zero |-> 0,
     visible_lines |-> lines, len |-> lines]

\* Mutant of rezero: the offset is reset but the rows are not rotated.
rezero_no_rotate(s) == [s EXCEPT !.zero = 0]

\* Storage::rezero
rezero(s) ==
    IF s.zero = 0
    THEN s
    ELSE [s EXCEPT !.inner = RotateLeft(s.inner, s.zero), !.zero = 0]

\* Storage::truncate
truncate(s) ==
    LET z == rezero(s)
    IN  [z EXCEPT !.inner = VecTruncate(z.inner, z.len)]

\* Mutant of shrink_lines: >= instead of > in the test that frees memory.
shrink_lines_ge(s, shrinkage) ==
    LET t == [s EXCEPT !.len = s.len - shrinkage]
    IN  IF VecLen(t.inner) >= t.len + MAX_CACHE_SIZE THEN truncate(t) ELSE t

\* Mutant of shrink_lines: the memory is never freed.
shrink_lines_no_truncate(s, shrinkage) == [s EXCEPT !.len = s.len - shrinkage]

\* Storage::shrink_lines(shrinkage), for shrinkage <= len
shrink_lines(s, shrinkage) ==
    LET t == [s EXCEPT !.len = s.len - shrinkage]
    IN  IF VecLen(t.inner) > t.len + MAX_CACHE_SIZE THEN truncate(t) ELSE t

\* Mutant of shrink_visible_lines: visible_lines is not lowered to next.
shrink_visible_lines_keep(s, next) ==
    LET shrinkage == s.visible_lines - next
    IN  shrink_lines(s, shrinkage)

\* Storage::shrink_visible_lines(next), for next <= visible_lines
shrink_visible_lines(s, next) ==
    LET shrinkage == s.visible_lines - next
    IN  [shrink_lines(s, shrinkage) EXCEPT !.visible_lines = next]

\* Mutant of initialize: the vector grows by the requested rows only.
initialize_no_batch(s, additional_rows) ==
    LET t == IF s.len + additional_rows > VecLen(s.inner)
             THEN LET z == rezero(s)
                      realloc_size == VecLen(z.inner) + additional_rows
                  IN  [z EXCEPT !.inner = ResizeWithBlank(z.inner, realloc_size)]
             ELSE s
    IN  [t EXCEPT !.len = t.len + additional_rows]

\* Mutant of initialize: the capacity test forgets the additional rows.
initialize_no_additional(s, additional_rows) ==
    LET t == IF s.len > VecLen(s.inner)
             THEN LET z == rezero(s)
                      realloc_size == VecLen(z.inner) + Max(additional_rows, MAX_CACHE_SIZE)
                  IN  [z EXCEPT !.inner = ResizeWithBlank(z.inner, realloc_size)]
             ELSE s
    IN  [t EXCEPT !.len = t.len + additional_rows]

\* Storage::initialize(additional_rows, columns)
initialize(s, additional_rows) ==
    LET t == IF s.len + additional_rows > VecLen(s.inner)
             THEN LET z == rezero(s)
                      realloc_size == VecLen(z.inner) + Max(additional_rows, MAX_CACHE_SIZE)
                  IN  [z EXCEPT !.inner = ResizeWithBlank(z.inner, realloc_size)]
             ELSE s
    IN  [t EXCEPT !.len = t.len + additional_rows]

\* Mutant of rotate: the sign of count is dropped.
rotate_abs(s, count) ==
    LET n == VecLen(s.inner)
    IN  [s EXCEPT !.zero = (s.zero + (IF count < 0 THEN 0 - count ELSE count) + n) % n]

\* Storage::rotate(count), for a non-empty vector and |count| <= inner.len()
rotate(s, count) ==
    LET n == VecLen(s.inner)
    IN  [s EXCEPT !.zero = (s.zero + count + n) % n]

\* Mutant of rotate_down: rotates the other way.
rotate_down_up(s, count) ==
    LET n == VecLen(s.inner)
    IN  [s EXCEPT !.zero = (s.zero + n - (count % n)) % n]

\* Mutant of rotate_down: the remainder is forgotten.
rotate_down_no_rem(s, count) ==
    [s EXCEPT !.zero = s.zero + count]

\* Storage::rotate_down(count), for a non-empty vector
rotate_down(s, count) ==
    [s EXCEPT !.zero = (s.zero + count) % VecLen(s.inner)]

\* Storage::replace_inner(vec)
replace_inner(s, vec) ==
    [s EXCEPT !.len = VecLen(vec), !.inner = vec, !.zero = 0]

\* Storage::take_all: the storage it leaves behind ...
take_all(s) ==
    [truncate(s) EXCEPT !.inner = VecNew, !.len = 0]

\* Mutant of take_all_buffer: the cached rows are not truncated away.
take_all_buffer_no_truncate(s) == rezero(s).inner

\* ... and the vector it returns.
take_all_buffer(s) == truncate(s).inner

(***************************************************************************)
(* Storage::compute_index(requested).  The result is                       *)
(*   [assert |-> a debug_assert! failed, idx |-> the usize returned].      *)
(* The arithmetic of the source is on usize (64 bits, wrapping in a build  *)
(* without debug assertions).  All magnitudes of the model are far below   *)
(* 2^63, so a usize value u is kept as the integer u when it did not wrap  *)
(* and as WRAPPED when the subtraction/addition left it just below 2^64:   *)
(*   positive = -(requested - visible_lines) as usize - 1                  *)
(* is visible_lines - requested - 1 modulo 2^64, and zero + positive wraps *)
(* back to a small value exactly when the integer sum is >= 0.             *)
(***************************************************************************)
\* Mutant of compute_index: > instead of >= in the wrap-around test.
compute_index_gt(s, dbg, requested) ==
    LET positive == s.visible_lines - requested - 1
        zeroed   == s.zero + positive
        n        == VecLen(s.inner)
    IN  IF dbg /\ ~(requested < s.visible_lines) THEN [assert |-> TRUE, idx |-> 0]
        ELSE IF dbg /\ ~(positive < s.len) THEN [assert |-> TRUE, idx |-> 0]
        ELSE IF zeroed < 0 THEN [assert |-> FALSE, idx |-> WRAPPED]
        ELSE IF zeroed > n THEN [assert |-> FALSE, idx |-> zeroed - n]
        ELSE [assert |-> FALSE, idx |-> zeroed]

compute_index(s, dbg, requested) ==
    LET positive == s.visible_lines - requested - 1
        zeroed   == s.zero + positive
        n        == VecLen(s.inner)
    IN  IF dbg /\ ~(requested < s.visible_lines) THEN [assert |-> TRUE, idx |-> 0]
        ELSE IF dbg /\ ~(positive < s.len) THEN [assert |-> TRUE, idx |-> 0]
        ELSE IF zeroed < 0 THEN [assert |-> FALSE, idx |-> WRAPPED]
        ELSE IF zeroed >= n THEN [assert |-> FALSE, idx |-> zeroed - n]
        ELSE [assert |-> FALSE, idx |-> zeroed]

\* Does Vec's bounds check accept the physical index idx?
InBounds(s, idx) == idx >= 0 /\ idx < VecLen(s.inner)

\* Does indexing with `requested` return a row (no assertion failure and no
\* out-of-bounds panic of the vector)?
Returns(s, dbg, requested) ==
    LET ci == compute_index(s, dbg, requested)
    IN  ~ci.assert /\ InBounds(s, ci.idx)

\* Index<Line>::index: the row returned, when Returns(s, dbg, requested).
index(s, dbg, requested) == VecGet(s.inner, compute_index(s, dbg, requested).idx)

\* IndexMut<Line>::index_mut followed by a write of `row` through the reference.
index_mut(s, dbg, requested, row) ==
    [s EXCEPT !.inner = VecSet(s.inner, compute_index(s, dbg, requested).idx, row)]

\* Mutant of swap: the row of b is copied to a, and b keeps its row.
swap_copy(s, dbg, a, b) ==
    LET ia == compute_index(s, dbg, a).idx
        ib == compute_index(s, dbg, b).idx
    IN  [s EXCEPT !.inner = VecSet(s.inner, ia, VecGet(s.inner, ib))]

\* Storage::swap(a, b), when both physical indices are inside the vector.
swap(s, dbg, a, b) ==
    LET ia == compute_index(s, dbg, a).idx
        ib == compute_index(s, dbg, b).idx
    IN  [s EXCEPT !.inner = VecSet(VecSet(s.inner, ia, VecGet(s.inner, ib)),
                                   ib, VecGet(s.inner, ia))]

\* Storage::grow_visible_lines(next), for next >= visible_lines, after its
\* read of self[Line(0)].len() has returned.
grow_visible_lines(s, next) ==
    LET additional_lines == next - s.visible_lines
    IN  [initialize(s, additional_lines) EXCEPT !.visible_lines = next]

\* The logical range of lines: [visible_lines - len, visible_lines).
LogicalRange(s) == (s.visible_lines - s.len) .. (s.visible_lines - 1)

----------------------------------------------------------------------------
(* The state machine: one action per public operation of Storage.  Every   *)
(* action records in `last` the operation, its arguments, the storage      *)
(* before it (pre) and the vector take_all returned or replace_inner      *)
(* received (vec).  When                                                   *)
(* replace_inner puts back the vector that the take_all right before it    *)
(* returned, roundtrip is TRUE and pre2 is the storage before that         *)
(* take_all; otherwise pre2 is pre.                                        *)

Record(op, a, b, vec) ==
    LET roundtrip == op = "replace_inner" /\ last.op = "take_all" /\ vec = last.vec
    IN  [op |-> op, a |-> a, b |-> b, vec |-> vec, pre |-> Self,
         roundtrip |-> roundtrip, pre2 |-> IF roundtrip THEN last.pre ELSE Self]

\* An operation that mutates the storage (or aborts the process).
Commit(s, st, rec) ==
    /\ inner' = s.inner
    /\ zero' = s.zero
    /\ visible_lines' = s.visible_lines
    /\ len' = s.len
    /\ status' = st
    /\ last' = rec
    /\ steps' = steps + 1
    /\ UNCHANGED debug_assertions
    /\ UNCHANGED StorageOthers

\* A panic aborts the process: the storage is left as it was.
Panic(op, a, b) == Commit(Self, "panicked", Record(op, a, b, VecNew))

Running == status = "ok" /\ steps < MaxSteps

\* The lines the callers index with: the visible lines, the MaxCount history
\* lines above them, the topmost line of the logical range, and one line
\* beyond each end of the logical range.
Lines ==
    {l \in (visible_lines - len - 1) .. visible_lines :
        l <= visible_lines - len \/ l >= 0 - MaxCount}

\* The vectors a caller hands to replace_inner: the one take_all has just
\* returned to it, or a freshly built one.
FreshVecs ==
    {VecFromSeq([i \in 1 .. k |-> ((i - 1) % MaxVal) + 1]) : k \in 0 .. MaxVisible + 1}
ReplaceVecs == FreshVecs \cup (IF last.op = "take_all" THEN {last.vec} ELSE {})

Init ==
    /\ \E lines \in 1 .. MaxVisible :
          LET s == with_capacity(lines)
          IN  /\ inner = s.inner
              /\ zero = s.zero
              /\ visible_lines = s.visible_lines
              /\ len = s.len
    /\ debug_assertions \in BOOLEAN
    /\ status = "ok"
    /\ last = [op |-> "with_capacity", a |-> visible_lines, b |-> 0, vec |-> VecNew,
               pre |-> Self, roundtrip |-> FALSE, pre2 |-> Self]
    /\ steps = 0
    /\ StorageOthersIdle

\* Index<Line>::index(line) returns the row index(Self, debug_assertions, line)
\* and leaves the storage as it is, or aborts the process.
Index ==
    /\ Running
    /\ \E line \in Lines :
          \/ /\ Returns(Self, debug_assertions, line)
             /\ UNCHANGED vars
          \/ /\ ~Returns(Self, debug_assertions, line)
             /\ Panic("index", line, 0)

IndexMut ==
    /\ Running
    /\ \E line \in Lines, row \in 1 .. MaxVal :
          \/ /\ Returns(Self, debug_assertions, line)
             /\ Commit(index_mut(Self, debug_assertions, line, row), "ok",
                       Record("index_mut", line, row, VecNew))
          \/ /\ ~Returns(Self, debug_assertions, line)
             /\ Panic("index_mut", line, row)

\* swap computes both indices and then exchanges the rows through raw
\* pointers, without a bounds check: with an index outside the vector the
\* behaviour is undefined (the process may crash, or memory next to the
\* vector is exchanged with the row that is inside it).
Swap ==
    /\ Running
    /\ \E a \in Lines, b \in Lines :
          /\ a <= b
          /\ LET ca == compute_index(Self, debug_assertions, a)
                 cb == compute_index(Self, debug_assertions, b)
             IN  \/ /\ ~ca.assert /\ ~cb.assert
                    /\ InBounds(Self, ca.idx) /\ InBounds(Self, cb.idx)
                    /\ Commit(swap(Self, debug_assertions, a, b), "ok",
                              Record("swap", a, b, VecNew))
                 \/ /\ ca.assert \/ cb.assert
                    /\ Panic("swap", a, b)
                 \/ /\ ~ca.assert /\ ~cb.assert
                    /\ ~(InBounds(Self, ca.idx) /\ InBounds(Self, cb.idx))
                    /\ \/ Panic("swap", a, b)
                       \/ \E x \in Contents :
                             Commit([Self EXCEPT !.inner =
                                        IF InBounds(Self, ca.idx)
                                        THEN VecSet(inner, ca.idx, x)
                                        ELSE IF InBounds(Self, cb.idx)
                                        THEN VecSet(inner, cb.idx, x)
                                        ELSE inner],
                                    "ub", Record("swap", a, b, VecNew))

\* grow_visible_lines first reads self[Line(0)].len().
GrowVisibleLines ==
    /\ Running
    /\ \E next \in visible_lines .. (visible_lines + MaxCount) :
          \/ /\ Returns(Self, debug_assertions, 0)
             /\ Commit(grow_visible_lines(Self, next), "ok",
                       Record("grow_visible_lines", next, 0, VecNew))
          \/ /\ ~Returns(Self, debug_assertions, 0)
             /\ Panic("grow_visible_lines", next, 0)

ShrinkVisibleLines ==
    /\ Running
    /\ \E next \in 0 .. visible_lines :
          /\ visible_lines - next <= len
          /\ visible_lines - next <= MaxCount
          /\ Commit(shrink_visible_lines(Self, next), "ok",
                    Record("shrink_visible_lines", next, 0, VecNew))

ShrinkLines ==
    /\ Running
    /\ \E shrinkage \in 0 .. MaxCount :
          /\ shrinkage <= len
          /\ Commit(shrink_lines(Self, shrinkage), "ok",
                    Record("shrink_lines", shrinkage, 0, VecNew))

Truncate ==
    /\ Running
    /\ Commit(truncate(Self), "ok", Record("truncate", 0, 0, VecNew))

Initialize ==
    /\ Running
    /\ \E additional_rows \in 0 .. MaxCount :
          Commit(initialize(Self, additional_rows), "ok",
                 Record("initialize", additional_rows, 0, VecNew))

\* initialize asked for more rows than MAX_CACHE_SIZE in one call: the other
\* side of max(additional_rows, MAX_CACHE_SIZE).
InitializeBatch ==
    /\ Running
    /\ Commit(initialize(Self, MAX_CACHE_SIZE + 1), "ok",
              Record("initialize", MAX_CACHE_SIZE + 1, 0, VecNew))

\* The remainder by inner.len() panics when the vector is empty.
Rotate ==
    /\ Running
    /\ \E count \in (0 - MaxCount) .. MaxCount :
          \/ /\ VecLen(inner) > 0
             /\ count <= VecLen(inner) /\ 0 - count <= VecLen(inner)
             /\ Commit(rotate(Self, count), "ok", Record("rotate", count, 0, VecNew))
          \/ /\ VecLen(inner) = 0
             /\ Panic("rotate", count, 0)

RotateDown ==
    /\ Running
    /\ \E count \in (0 .. MaxCount) \cup {VecLen(inner)} :
          \/ /\ VecLen(inner) > 0
             /\ Commit(rotate_down(Self, count), "ok",
                       Record("rotate_down", count, 0, VecNew))
          \/ /\ VecLen(inner) = 0
             /\ Panic("rotate_down", count, 0)

ReplaceInner ==
    /\ Running
    /\ \E vec \in ReplaceVecs :
          Commit(replace_inner(Self, vec), "ok",
                 Record("replace_inner", 0, 0, vec))

TakeAll ==
    /\ Running
    /\ Commit(take_all(Self), "ok",
              Record("take_all", 0, 0, take_all_buffer(Self)))

Next ==
    \/ Index
    \/ IndexMut
    \/ Swap
    \/ GrowVisibleLines
    \/ ShrinkVisibleLines
    \/ ShrinkLines
    \/ Truncate
    \/ Initialize
    \/ Rotate
    \/ RotateDown
    \/ ReplaceInner
    \/ TakeAll

Spec == Init /\ [][Next]_vars

(* The same machine with InitializeBatch.  It is kept apart because it     *)
(* makes len exceed MAX_CACHE_SIZE, and with it the length of every        *)
(* quantification over the logical range.                                  *)
NextBatch ==
    \/ Next
    \/ InitializeBatch

SpecBatch == Init /\ [][NextBatch]_vars

----------------------------------------------------------------------------
(* The claims about Storage.                                               *)

Ok == status = "ok"

\* The storage before the last operation.
Pre == last.pre

\* The row read at storage[Line(line)] of the storage value s.
Row(s, line) == index(s, debug_assertions, line)

\* The physical index of a line, as the specification states it.
ModIndex(s, line) ==
    (s.zero + (s.visible_lines - 1 - line)) % VecLen(s.inner)

(* C1, as stated: after rotate_down(k) with k <= inner.len(), the row read *)
(* at storage[Line(0)] is the row that was read at storage[Line(k)]        *)
(* before the call.  (Stated for a build with debug assertions, where      *)
(* every earlier access was inside the logical range.)                     *)
C1_Line0IsOldLineK ==
    (/\ Ok
     /\ debug_assertions
     /\ last.op = "rotate_down"
     /\ last.a <= VecLen(Pre.inner)
     /\ last.a \in LogicalRange(Pre)
     /\ 0 \in LogicalRange(Self))
    => Row(Self, 0) = Row(Pre, last.a)

(* C1, amended: after rotate_down(k) the row read at storage[Line(0)] is   *)
(* the row that was read at storage[Line(-k)] before the call, for every k *)
(* for which Line(-k) is in the logical range (k <= len - visible_lines).  *)
C1_Line0IsOldLineMinusK ==
    (/\ Ok
     /\ last.op = "rotate_down"
     /\ last.a <= VecLen(Pre.inner)
     /\ (0 - last.a) \in LogicalRange(Pre)
     /\ 0 \in LogicalRange(Self))
    => Row(Self, 0) = Row(Pre, 0 - last.a)

\* A rotate_down(k), k >= 1, that brought a written history row to Line(0),
\* where a different row was read before.
C1_Witness ==
    /\ Ok
    /\ last.op = "rotate_down"
    /\ last.a >= 1
    /\ (0 - last.a) \in LogicalRange(Pre)
    /\ 0 \in LogicalRange(Pre)
    /\ 0 \in LogicalRange(Self)
    /\ Row(Self, 0) # BlankRow
    /\ Row(Self, 0) # Row(Pre, 0)

(* C2: in every reachable state with a non-empty backing vector,           *)
(* zero < inner.len(), and for every line of the logical range             *)
(* compute_index(line) equals (zero + (visible_lines - 1 - line)) mod      *)
(* inner.len(): the conditional subtraction never differs from the modulo. *)
C2_ComputeIndexIsModulo ==
    VecLen(inner) > 0 =>
        /\ zero < VecLen(inner)
        /\ \A line \in LogicalRange(Self) :
              LET ci == compute_index(Self, debug_assertions, line)
              IN  ~ci.assert /\ ci.idx = ModIndex(Self, line)

\* A state where the subtraction is taken: the ring wraps inside the
\* logical range.
C2_Witness ==
    /\ Ok
    /\ zero > 0
    /\ \E line \in LogicalRange(Self) :
          /\ zero + (visible_lines - 1 - line) >= VecLen(inner)
          /\ Row(Self, line) # BlankRow

(* C3: len <= inner.len() in every state reachable from with_capacity by   *)
(* any sequence of the operations, called within their preconditions.      *)
C3_LenWithinInner == len <= VecLen(inner)

\* A shrink that truncated the vector down to the active rows.
C3_Witness ==
    /\ Ok
    /\ last.op \in {"shrink_lines", "shrink_visible_lines"}
    /\ VecLen(inner) < VecLen(Pre.inner)
    /\ len = VecLen(inner)
    /\ len > 0

(* C4: grow_visible_lines(n) loses and alters no row: every row that was   *)
(* readable before the call (the visible rows and the history above them)  *)
(* is readable right after it with identical content, whether or not the   *)
(* call had to rezero and reallocate.  The rows keep their distance from   *)
(* the bottom line, so the row of line l is read at line                   *)
(* l + (n - visible_lines) afterwards.                                     *)
C4_GrowKeepsRows ==
    (Ok /\ last.op = "grow_visible_lines") =>
        LET additional_lines == last.a - Pre.visible_lines
        IN  \A line \in LogicalRange(Pre) :
               /\ (line + additional_lines) \in LogicalRange(Self)
               /\ Returns(Self, debug_assertions, line + additional_lines)
               /\ Row(Self, line + additional_lines) = Row(Pre, line)

\* A growth that had to rezero (zero > 0 before) and to reallocate, with a
\* written row among the visible ones.
C4_Witness ==
    /\ Ok
    /\ last.op = "grow_visible_lines"
    /\ last.a > Pre.visible_lines
    /\ Pre.zero > 0
    /\ VecLen(inner) > VecLen(Pre.inner)
    /\ \E line \in LogicalRange(Pre) :
          /\ line >= 0
          /\ Row(Pre, line) # BlankRow
          /\ Row(Pre, line) # Row(Pre, 0)

C6_IndexBelowLen ==
    (Ok /\ debug_assertions) =>
        \A line \in LogicalRange(Self) :
           LET ci == compute_index(Self, debug_assertions, line)
           IN  ~ci.assert /\ ci.idx >= 0 /\ ci.idx < len

(* C6, amended: for every line of the logical range the physical index     *)
(* returned by compute_index is within [0, inner.len()).                   *)
C6_IndexBelowInnerLen ==
    \A line \in LogicalRange(Self) :
       LET ci == compute_index(Self, debug_assertions, line)
       IN  ~ci.assert /\ ci.idx >= 0 /\ ci.idx < VecLen(inner)

\* A state with zero > 0 and cached rows beyond len, where a line of the
\* logical range has a physical index >= len.
C6_Witness ==
    /\ Ok
    /\ zero > 0
    /\ VecLen(inner) > len
    /\ \E line \in LogicalRange(Self) :
          compute_index(Self, debug_assertions, line).idx >= len

(* C7, as stated: indexing (index, index_mut, swap) with a line outside    *)
(* the logical range [visible_lines - len, visible_lines) is a fatal       *)
(* assertion failure: it never returns a row.                              *)
C7_OutOfRangeIsFatal ==
    /\ Ok =>
          \A line \in Lines :
             line \notin LogicalRange(Self) => ~Returns(Self, debug_assertions, line)
    /\ (last.op = "index_mut" /\ last.a \notin LogicalRange(Pre)) =>
          status = "panicked"
    /\ (last.op = "swap"
        /\ (last.a \notin LogicalRange(Pre) \/ last.b \notin LogicalRange(Pre))) =>
          status = "panicked"

(* C8: initialize(additional_rows, columns): when len + additional_rows >  *)
(* inner.len() the storage is first rezeroed (zero == 0 afterwards, every  *)
(* active row keeps its logical line) and the backing vector grows by      *)
(* exactly max(additional_rows, 1000) blank rows; when the capacity        *)
(* suffices, inner and zero are unchanged; in both cases len increases by  *)
(* exactly additional_rows.                                                *)
C8_Initialize ==
    (Ok /\ last.op = "initialize") =>
        LET additional_rows == last.a
            old_len == VecLen(Pre.inner)
        IN  /\ len = Pre.len + additional_rows
            /\ visible_lines = Pre.visible_lines
            /\ IF Pre.len + additional_rows > old_len
               THEN /\ zero = 0
                    /\ VecLen(inner) = old_len + Max(additional_rows, 1000)
                    /\ \A i \in DOMAIN inner.rows : i < old_len
                    /\ \A line \in LogicalRange(Pre) : Row(Self, line) = Row(Pre, line)
               ELSE inner = Pre.inner /\ zero = Pre.zero

\* An initialize of more than 1000 rows that had to rezero (zero > 0 before)
\* and to reallocate a storage holding a written row.
C8_Witness ==
    /\ Ok
    /\ last.op = "initialize"
    /\ last.a > 1000
    /\ Pre.len + last.a > VecLen(Pre.inner)
    /\ Pre.zero > 0
    /\ \E line \in LogicalRange(Pre) : Row(Pre, line) # BlankRow

(* C9: shrink_lines(s) reduces len by exactly s and truncates the backing  *)
(* vector (to the new len, with zero reset to 0) if and only if the slack  *)
(* inner.len() - len exceeds 1000 after the reduction; otherwise inner and *)
(* zero are left unchanged.                                                *)
C9_ShrinkLines ==
    (Ok /\ last.op = "shrink_lines") =>
        /\ len = Pre.len - last.a
        /\ visible_lines = Pre.visible_lines
        /\ IF VecLen(Pre.inner) - len > 1000
           THEN VecLen(inner) = len /\ zero = 0
           ELSE inner = Pre.inner /\ zero = Pre.zero

\* A shrink_lines that truncated a rotated storage.
C9_Witness ==
    /\ Ok
    /\ last.op = "shrink_lines"
    /\ last.a > 0
    /\ Pre.zero > 0
    /\ VecLen(Pre.inner) - len > 1000
    /\ VecLen(inner) < VecLen(Pre.inner)

(* C10, as stated: every row that grow_visible_lines or initialize brings  *)
(* into the logical range is a blank row, also when the growth is served   *)
(* from the cached slack without reallocation.  The rows brought in are    *)
(* those at the distances Pre.len .. len - 1 from the bottom line.         *)
(* (Stated for a build with debug assertions, where no row outside the     *)
(* logical range was ever written.)                                        *)
C10_NewRowsAreBlank ==
    (Ok /\ debug_assertions /\ last.op \in {"grow_visible_lines", "initialize"}) =>
        \A positive \in Pre.len .. (len - 1) :
           Row(Self, visible_lines - 1 - positive) = BlankRow

(* C11: shrink_visible_lines(next) removes from the logical range exactly  *)
(* the visible_lines - next oldest rows (the lowest lines, farthest from   *)
(* the bottom line); every remaining row keeps its content and its         *)
(* distance from the bottommost line.                                      *)
C11_ShrinkVisibleLinesDropsOldest ==
    (Ok /\ last.op = "shrink_visible_lines") =>
        LET shrinkage == Pre.visible_lines - last.a
        IN  /\ visible_lines = last.a
            /\ len = Pre.len - shrinkage
            /\ LogicalRange(Self) =
                  {l - shrinkage : l \in {k \in LogicalRange(Pre) :
                      k >= Pre.visible_lines - Pre.len + shrinkage}}
            /\ \A l \in LogicalRange(Self) :
                  /\ Row(Self, l) = Row(Pre, l + shrinkage)
                  /\ (visible_lines - 1) - l = (Pre.visible_lines - 1) - (l + shrinkage)

\* A shrink_visible_lines that removed a row from a rotated storage and kept
\* a written row.
C11_Witness ==
    /\ Ok
    /\ last.op = "shrink_visible_lines"
    /\ Pre.visible_lines - last.a > 0
    /\ Pre.zero > 0
    /\ \E l \in LogicalRange(Self) : Row(Self, l) # BlankRow

(* C31: rotate(count) and rotate_down(count) modify only the zero offset   *)
(* (inner, len and visible_lines are unchanged, the offset moves by count   *)
(* modulo inner.len()); rotate(k) with 0 <= k <= inner.len() has the effect *)
(* of rotate_down(k); and rotate(k) followed by rotate(-k), either way      *)
(* round, restores the storage and with it the row at every line.           *)
C31_RotateOnlyMovesZero ==
    /\ (Ok /\ last.op \in {"rotate", "rotate_down"}) =>
          /\ inner = Pre.inner
          /\ len = Pre.len
          /\ visible_lines = Pre.visible_lines
          /\ zero = (Pre.zero + last.a) % VecLen(Pre.inner)
    /\ (Ok /\ VecLen(inner) > 0) =>
          \A k \in (0 .. MaxCount) \cup {VecLen(inner)} :
              k <= VecLen(inner) =>
                  /\ rotate(Self, k) = rotate_down(Self, k)
                  /\ rotate(rotate(Self, k), 0 - k) = Self
                  /\ rotate(rotate(Self, 0 - k), k) = Self
                  /\ \A line \in LogicalRange(Self) :
                        Row(rotate(rotate(Self, k), 0 - k), line) = Row(Self, line)

\* A rotate by a negative count moved the offset of a storage holding a
\* written row, and the rows read at Line(0) before and after differ.
C31_Witness ==
    /\ Ok
    /\ last.op = "rotate"
    /\ last.a < 0
    /\ zero # Pre.zero
    /\ 0 \in LogicalRange(Self)
    /\ Row(Self, 0) # Row(Pre, 0)

(* C32: the number of cached rows outside the active range never exceeds   *)
(* MAX_CACHE_SIZE: inner.len() - len <= 1000 in every state reachable from *)
(* with_capacity by any sequence of the operations.                        *)
C32_CacheWithinMax == status # "ub" => VecLen(inner) - len <= MAX_CACHE_SIZE

\* A shrink left exactly MAX_CACHE_SIZE cached rows: one row more and it
\* would have truncated.
C32_Witness ==
    /\ Ok
    /\ last.op \in {"shrink_lines", "shrink_visible_lines"}
    /\ last.a > 0 \/ last.op = "shrink_visible_lines"
    /\ len < Pre.len
    /\ VecLen(inner) - len = MAX_CACHE_SIZE

(* C33: every Storage operation is defined in every reachable state: the   *)
(* backing vector is never empty when rotate or rotate_down take a         *)
(* remainder by inner.len() or when grow_visible_lines reads Line(0), also *)
(* directly after take_all().                                              *)
C33_OperationsDefined ==
    ~(status = "panicked" /\ last.op \in {"rotate", "rotate_down", "grow_visible_lines"})

(* C34: swap(a, b) of two lines of the logical range exchanges the rows at *)
(* lines a and b, leaves every other line, zero, len and visible_lines     *)
(* unchanged, is the identity when a = b, and applied twice restores the   *)
(* storage.                                                                *)
C34_SwapExchangesRows ==
    (/\ Ok
     /\ last.op = "swap"
     /\ last.a \in LogicalRange(Pre)
     /\ last.b \in LogicalRange(Pre)) =>
        /\ Row(Self, last.a) = Row(Pre, last.b)
        /\ Row(Self, last.b) = Row(Pre, last.a)
        /\ \A line \in LogicalRange(Pre) \ {last.a, last.b} :
              Row(Self, line) = Row(Pre, line)
        /\ zero = Pre.zero /\ len = Pre.len /\ visible_lines = Pre.visible_lines
        /\ VecLen(inner) = VecLen(Pre.inner)
        /\ last.a = last.b => Self = Pre
        /\ swap(Self, debug_assertions, last.a, last.b) = Pre

\* A swap exchanged two different rows of two different lines.
C34_Witness ==
    /\ Ok
    /\ last.op = "swap"
    /\ last.a \in LogicalRange(Pre)
    /\ last.b \in LogicalRange(Pre)
    /\ last.a # last.b
    /\ Row(Pre, last.a) # Row(Pre, last.b)
    /\ Row(Self, last.a) = Row(Pre, last.b)

----------------------------------------------------------------------------
(* Part 2: the lock around the shared Term.                                *)
(*                                                                         *)
(* WindowContext::new wraps the Term in a FairMutex and starts the I/O     *)
(* thread; WindowContext::handle_event takes the lock for the whole        *)
(* processing of the queued events.  The mutex itself and the I/O thread   *)
(* are modelled from the specification: a data lock and a "next" token     *)
(* that unlock hands to the writer when the writer is waiting.             *)

\* Number of write bursts of the I/O thread and of handled UI event batches.
MaxRounds == 3

\* FairMutex::new(terminal)
FairMutexNew == [data |-> "free", next |-> "none"]

\* The lock can be taken by the UI thread: it is free and its next token is
\* not held for the writer.
CanLock(m) == m.data = "free" /\ m.next # "io"

\* The lock can be taken by the writer: it is free.
CanLockWriter(m) == m.data = "free"

\* The lock as taken by thread t; a writer taking it consumes the token.
Locked(m, t) == [data |-> t, next |-> IF t = "io" THEN "none" ELSE m.next]

\* Unlock: the token goes to the writer if it is waiting.
Unlocked(m, writer_waiting) ==
    [data |-> "free", next |-> IF writer_waiting THEN "io" ELSE "none"]

WriterWaiting == io_thread.pc = "waiting"

SyncInit ==
    /\ mutex = FairMutexNew
    /\ term = [a |-> 0, b |-> 0]
    /\ io_thread = [pc |-> "idle", writes |-> 0]
    /\ ui_thread = [pc |-> "idle", events |-> 0, seen |-> [a |-> 0, b |-> 0],
                    released_past_writer |-> FALSE]
    /\ SyncOthersIdle

\* The I/O thread has read bytes from the PTY and asks for the lock.
IOWait ==
    /\ io_thread.pc = "idle"
    /\ io_thread.writes < MaxRounds
    /\ io_thread' = [io_thread EXCEPT !.pc = "waiting"]
    /\ UNCHANGED <<mutex, term, ui_thread, SyncOthers>>

IOLock ==
    /\ io_thread.pc = "waiting"
    /\ CanLockWriter(mutex)
    /\ mutex' = Locked(mutex, "io")
    /\ io_thread' = [io_thread EXCEPT !.pc = "write_a"]
    /\ ui_thread' = [ui_thread EXCEPT !.released_past_writer = FALSE]
    /\ UNCHANGED <<term, SyncOthers>>

\* The parser applies the bytes to the Term, one field after the other.
IOWriteA ==
    /\ io_thread.pc = "write_a"
    /\ term' = [term EXCEPT !.a = term.a + 1]
    /\ io_thread' = [io_thread EXCEPT !.pc = "write_b"]
    /\ UNCHANGED <<mutex, ui_thread, SyncOthers>>

IOWriteB ==
    /\ io_thread.pc = "write_b"
    /\ term' = [term EXCEPT !.b = term.b + 1]
    /\ io_thread' = [io_thread EXCEPT !.pc = "written"]
    /\ UNCHANGED <<mutex, ui_thread, SyncOthers>>

IOUnlock ==
    /\ io_thread.pc = "written"
    /\ mutex' = Unlocked(mutex, FALSE)
    /\ io_thread' = [pc |-> "idle", writes |-> io_thread.writes + 1]
    /\ UNCHANGED <<term, ui_thread, SyncOthers>>

\* handle_event is called with events in the queue and reaches
\* self.terminal.lock().
HandleEventBegin ==
    /\ ui_thread.pc = "idle"
    /\ ui_thread.events < MaxRounds
    /\ ui_thread' = [ui_thread EXCEPT !.pc = "waiting"]
    /\ UNCHANGED <<mutex, term, io_thread, SyncOthers>>

\* Mutant of HandleEventLock: the UI thread takes the data lock without
\* regard to the next token.
HandleEventLock_unfair ==
    /\ ui_thread.pc = "waiting"
    /\ CanLockWriter(mutex)
    /\ mutex' = Locked(mutex, "ui")
    /\ ui_thread' = [ui_thread EXCEPT !.pc = "locked"]
    /\ UNCHANGED <<term, io_thread, SyncOthers>>

\* let mut terminal = self.terminal.lock();
HandleEventLock ==
    /\ ui_thread.pc = "waiting"
    /\ CanLock(mutex)
    /\ mutex' = Locked(mutex, "ui")
    /\ ui_thread' = [ui_thread EXCEPT !.pc = "locked"]
    /\ UNCHANGED <<term, io_thread, SyncOthers>>

\* The queued events and the display update are processed on the locked Term.
HandleEventProcess ==
    /\ ui_thread.pc = "locked"
    /\ ui_thread' = [ui_thread EXCEPT !.pc = "processed", !.seen = term]
    /\ UNCHANGED <<mutex, term, io_thread, SyncOthers>>

\* handle_event returns: the guard is dropped.
HandleEventEnd ==
    /\ ui_thread.pc = "processed"
    /\ mutex' = Unlocked(mutex, WriterWaiting)
    /\ ui_thread' = [ui_thread EXCEPT !.pc = "idle",
                                      !.events = ui_thread.events + 1,
                                      !.released_past_writer = WriterWaiting]
    /\ UNCHANGED <<term, io_thread, SyncOthers>>

SyncNext ==
    \/ IOWait
    \/ IOLock
    \/ IOWriteA
    \/ IOWriteB
    \/ IOUnlock
    \/ HandleEventBegin
    \/ HandleEventLock
    \/ HandleEventProcess
    \/ HandleEventEnd

SpecSync == SyncInit /\ [][SyncNext]_vars

IOHolds == io_thread.pc \in {"write_a", "write_b", "written"}
UIHolds == ui_thread.pc \in {"locked", "processed"}

(* C12: access to the shared Term is mutually exclusive between the I/O    *)
(* thread and the UI thread (the UI thread never sees a half-applied       *)
(* write), and the writer is not overtaken twice: once the I/O thread is   *)
(* waiting for the lock, the UI thread does not hold the lock again after  *)
(* having released it; the writer takes it first.                          *)
C12_ExclusiveAndWriterFirst ==
    /\ ~(IOHolds /\ UIHolds)
    /\ IOHolds => mutex.data = "io"
    /\ UIHolds => mutex.data = "ui"
    /\ ui_thread.seen.a = ui_thread.seen.b
    /\ ~(WriterWaiting /\ ui_thread.released_past_writer /\ UIHolds)

\* The lock is free, the writer is waiting for it and so is the UI thread,
\* which has released the lock since the writer began to wait.
C12_Witness ==
    /\ WriterWaiting
    /\ ui_thread.released_past_writer
    /\ ui_thread.pc = "waiting"
    /\ mutex.data = "free"
    /\ term.a > 0

----------------------------------------------------------------------------
(* Part 3: the Display's size and damage tracking.                         *)
(*                                                                         *)
(* Pixel sizes are whole numbers (the window reports u32 sizes and         *)
(* compute_cell_size floors the cell size).  With dynamic padding the      *)
(* padding can be half a pixel, so paddings are computed doubled.  An      *)
(* Option is a sequence of length 0 (None) or 1 (Some).                    *)

\* alacritty_terminal::term::MIN_COLUMNS and MIN_SCREEN_LINES
MIN_COLUMNS == 2
MIN_SCREEN_LINES == 1

\* Cell widths and heights are 1..MaxCell pixels.
MaxCell == 2
\* Window widths and heights are MaxPixels - 1 .. MaxPixels pixels.
MaxPixels == 4
\* The configured window padding is 0..MaxPadding pixels.
MaxPadding == 1

None == <<>>
Some(v) == <<v>>

Pixels == (MaxPixels - 1) .. MaxPixels
Fonts == [cell_width : 1 .. MaxCell, cell_height : 1 .. MaxCell]
PhysicalSizes == [width : Pixels, height : Pixels]

\* `x as usize` of the quotient num / den of two floats, den > 0: truncated,
\* and 0 for a negative value.
QuotientAsUsize(num, den) == IF num < 0 THEN 0 ELSE num \div den

\* SizeInfo::dynamic_padding, doubled; dimension >= 2 * padding
dynamic_padding(padding, dimension, cell_dimension) ==
    2 * padding + ((dimension - 2 * padding) % cell_dimension)

\* SizeInfo::new
SizeInfoNew(width, height, cell_width, cell_height, padding_x, padding_y, dynamic) ==
    LET px2 == IF dynamic THEN dynamic_padding(padding_x, width, cell_width)
               ELSE 2 * padding_x
        py2 == IF dynamic THEN dynamic_padding(padding_y, height, cell_height)
               ELSE 2 * padding_y
    IN  [width |-> width,
         height |-> height,
         cell_width |-> cell_width,
         cell_height |-> cell_height,
         padding_x |-> px2 \div 2,
         padding_y |-> py2 \div 2,
         screen_lines |-> Max(QuotientAsUsize(height - py2, cell_height), MIN_SCREEN_LINES),
         columns |-> Max(QuotientAsUsize(width - px2, cell_width), MIN_COLUMNS)]

\* DisplayUpdate::default()
DisplayUpdateDefault ==
    [dirty |-> FALSE, dimensions |-> None, cursor_dirty |-> FALSE, font |-> None]

\* LineDamageBounds::undamaged(line, num_cols)
Undamaged(line, num_cols) == [line |-> line, left |-> num_cols, right |-> 0]

\* FrameDamage::default()
FrameDamageDefault == [full |-> FALSE, lines |-> <<>>, rects |-> <<>>]

\* FrameDamage::reset
reset(num_lines, num_cols) ==
    [full |-> FALSE,
     rects |-> <<>>,
     lines |-> [i \in 1 .. num_lines |-> Undamaged(i - 1, num_cols)]]

\* FrameDamage::mark_fully_damaged
mark_fully_damaged(f) == [f EXCEPT !.full = TRUE]

\* DamageTracker::frame: frames[0] of the source
frame(tracker) == tracker.frames[1]

\* DamageTracker::resize
resize(tracker, screen_lines, columns) ==
    [tracker EXCEPT !.screen_lines = screen_lines,
                    !.columns = columns,
                    !.frames = <<mark_fully_damaged(reset(screen_lines, columns)),
                                 reset(screen_lines, columns)>>]

\* DamageTracker::new
DamageTrackerNew(screen_lines, columns) ==
    resize([columns |-> columns, screen_lines |-> screen_lines,
            frames |-> <<FrameDamageDefault, FrameDamageDefault>>],
           screen_lines, columns)

\* Mutant of swap_damage: the frames are exchanged without the reset.
swap_damage_no_reset(tracker) ==
    [tracker EXCEPT !.frames = <<tracker.frames[2], tracker.frames[1]>>]

\* DamageTracker::swap_damage
swap_damage(tracker) ==
    [tracker EXCEPT !.frames =
        <<tracker.frames[2], reset(tracker.screen_lines, tracker.columns)>>]

\* Mutant of handle_update: a font change does not mark the frame.
handle_update_no_mark(d, config) ==
    LET pending_update == d.pending_update
        font == pending_update.font
        cell_width == IF font # None THEN font[1].cell_width ELSE d.size_info.cell_width
        cell_height == IF font # None THEN font[1].cell_height ELSE d.size_info.cell_height
        dimensions == pending_update.dimensions
        width == IF dimensions # None THEN dimensions[1].width ELSE d.size_info.width
        height == IF dimensions # None THEN dimensions[1].height ELSE d.size_info.height
        new_size == SizeInfoNew(width, height, cell_width, cell_height,
                                config.padding_x, config.padding_y,
                                config.dynamic_padding)
        resized == \/ d.size_info.screen_lines # new_size.screen_lines
                   \/ d.size_info.columns # new_size.columns
        tracker == IF resized
                   THEN resize(d.damage_tracker, new_size.screen_lines, new_size.columns)
                   ELSE d.damage_tracker
    IN  [display |-> [size_info |-> new_size,
                      pending_update |-> DisplayUpdateDefault,
                      damage_tracker |-> tracker],
         effects |-> IF resized
                     THEN <<"pty_on_resize", "term_resize", "damage_resize">>
                     ELSE <<>>,
         new_size |-> new_size]

\* Mutant of handle_update: only a change of screen_lines resizes.
handle_update_lines_only(d, config) ==
    LET pending_update == d.pending_update
        font == pending_update.font
        cell_width == IF font # None THEN font[1].cell_width ELSE d.size_info.cell_width
        cell_height == IF font # None THEN font[1].cell_height ELSE d.size_info.cell_height
        marked == IF font # None
                  THEN [d.damage_tracker EXCEPT
                           !.frames[1] = mark_fully_damaged(frame(d.damage_tracker))]
                  ELSE d.damage_tracker
        dimensions == pending_update.dimensions
        width == IF dimensions # None THEN dimensions[1].width ELSE d.size_info.width
        height == IF dimensions # None THEN dimensions[1].height ELSE d.size_info.height
        new_size == SizeInfoNew(width, height, cell_width, cell_height,
                                config.padding_x, config.padding_y,
                                config.dynamic_padding)
        resized == d.size_info.screen_lines # new_size.screen_lines
        tracker == IF resized
                   THEN resize(marked, new_size.screen_lines, new_size.columns)
                   ELSE marked
    IN  [display |-> [size_info |-> new_size,
                      pending_update |-> DisplayUpdateDefault,
                      damage_tracker |-> tracker],
         effects |-> IF resized
                     THEN <<"pty_on_resize", "term_resize", "damage_resize">>
                     ELSE <<>>,
         new_size |-> new_size]

\* Display::handle_update.  The result holds the display afterwards, the
\* resizes performed, in their order, and the size that was computed.
handle_update(d, config) ==
    LET pending_update == d.pending_update
        font == pending_update.font
        cell_width == IF font # None THEN font[1].cell_width ELSE d.size_info.cell_width
        cell_height == IF font # None THEN font[1].cell_height ELSE d.size_info.cell_height
        marked == IF font # None
                  THEN [d.damage_tracker EXCEPT
                           !.frames[1] = mark_fully_damaged(frame(d.damage_tracker))]
                  ELSE d.damage_tracker
        dimensions == pending_update.dimensions
        width == IF dimensions # None THEN dimensions[1].width ELSE d.size_info.width
        height == IF dimensions # None THEN dimensions[1].height ELSE d.size_info.height
        new_size == SizeInfoNew(width, height, cell_width, cell_height,
                                config.padding_x, config.padding_y,
                                config.dynamic_padding)
        resized == \/ d.size_info.screen_lines # new_size.screen_lines
                   \/ d.size_info.columns # new_size.columns
        tracker == IF resized
                   THEN resize(marked, new_size.screen_lines, new_size.columns)
                   ELSE marked
    IN  [display |-> [size_info |-> new_size,
                      pending_update |-> DisplayUpdateDefault,
                      damage_tracker |-> tracker],
         effects |-> IF resized
                     THEN <<"pty_on_resize", "term_resize", "damage_resize">>
                     ELSE <<>>,
         new_size |-> new_size]

\* What the last operation found (the pending font, the active frame's full
\* flag, the grid dimensions) and what it did.
DisplayRecord(op, effects, new_size) ==
    [op |-> op,
     font |-> display.pending_update.font # None,
     pre_full |-> frame(display.damage_tracker).full,
     pre_lines |-> display.size_info.screen_lines,
     pre_columns |-> display.size_info.columns,
     effects |-> effects,
     new_size |-> new_size]

\* Display::new
DisplayInit ==
    /\ ui_config \in [padding_x : 0 .. MaxPadding, padding_y : 0 .. MaxPadding,
                      dynamic_padding : BOOLEAN]
    /\ \E viewport_size \in PhysicalSizes, font \in Fonts :
          LET size_info == SizeInfoNew(viewport_size.width, viewport_size.height,
                                       font.cell_width, font.cell_height,
                                       ui_config.padding_x, ui_config.padding_y,
                                       ui_config.dynamic_padding)
          IN  /\ display = [size_info |-> size_info,
                            pending_update |-> DisplayUpdateDefault,
                            damage_tracker |-> DamageTrackerNew(size_info.screen_lines,
                                                                size_info.columns)]
              /\ display_last = [op |-> "new", font |-> FALSE, pre_full |-> FALSE,
                                 pre_lines |-> size_info.screen_lines,
                                 pre_columns |-> size_info.columns,
                                 effects |-> <<>>, new_size |-> size_info]
    /\ DisplayOthersIdle

\* The window was resized: pending_update.set_dimensions(size)
SetDimensions ==
    /\ \E size \in PhysicalSizes :
          display' = [display EXCEPT !.pending_update.dimensions = Some(size),
                                     !.pending_update.dirty = TRUE]
    /\ display_last' = DisplayRecord("set_dimensions", <<>>, display.size_info)
    /\ UNCHANGED <<ui_config, DisplayOthers>>

\* The font size was changed: pending_update.set_font(font)
SetFont ==
    /\ \E font \in Fonts :
          display' = [display EXCEPT !.pending_update.font = Some(font),
                                     !.pending_update.dirty = TRUE]
    /\ display_last' = DisplayRecord("set_font", <<>>, display.size_info)
    /\ UNCHANGED <<ui_config, DisplayOthers>>

\* ActionContext::exit_search marks the frame and the update
ExitSearch ==
    /\ display' = [display EXCEPT
                      !.damage_tracker.frames[1] =
                          mark_fully_damaged(frame(display.damage_tracker)),
                      !.pending_update.dirty = TRUE]
    /\ display_last' = DisplayRecord("exit_search", <<>>, display.size_info)
    /\ UNCHANGED <<ui_config, DisplayOthers>>

\* WindowContext::handle_event submits the pending update when it is dirty.
HandleUpdate ==
    /\ display.pending_update.dirty
    /\ LET r == handle_update(display, ui_config)
       IN  /\ display' = r.display
           /\ display_last' = DisplayRecord("handle_update", r.effects, r.new_size)
    /\ UNCHANGED <<ui_config, DisplayOthers>>

\* Display::draw ends with damage_tracker.swap_damage()
Draw ==
    /\ display' = [display EXCEPT !.damage_tracker = swap_damage(display.damage_tracker)]
    /\ display_last' = DisplayRecord("draw", <<>>, display.size_info)
    /\ UNCHANGED <<ui_config, DisplayOthers>>

DisplayNext ==
    \/ SetDimensions
    \/ SetFont
    \/ ExitSearch
    \/ HandleUpdate
    \/ Draw

SpecDisplay == DisplayInit /\ [][DisplayNext]_vars

\* A frame as FrameDamage::reset leaves it for the tracker's dimensions.
IsFreshFrame(f, tracker) ==
    /\ f.full = FALSE
    /\ f.rects = <<>>
    /\ Len(f.lines) = tracker.screen_lines
    /\ \A i \in 1 .. Len(f.lines) :
          f.lines[i] = Undamaged(i - 1, tracker.columns)

(* C13: after every DamageTracker::swap_damage(), whatever damage was      *)
(* recorded before, the active frame returned by frame() is a freshly      *)
(* reset buffer: full == false, no rects, and exactly one undamaged entry  *)
(* per screen line.                                                        *)
C13_SwapGivesFreshFrame ==
    display_last.op = "draw" =>
        /\ IsFreshFrame(frame(display.damage_tracker), display.damage_tracker)
        /\ display.damage_tracker.screen_lines = display.size_info.screen_lines
        /\ display.damage_tracker.columns = display.size_info.columns

\* A swap_damage of a tracker of several lines whose active frame was fully
\* damaged.
C13_Witness ==
    /\ display_last.op = "draw"
    /\ display_last.pre_full
    /\ display.damage_tracker.screen_lines > 1

(* C15: after DamageTracker::new or DamageTracker::resize(lines, columns)  *)
(* the active frame is fully damaged and both frames hold exactly `lines`  *)
(* line entries; after Display::handle_update has processed a pending     *)
(* font change the active frame is fully damaged as well, whether or not   *)
(* the grid dimensions changed.                                            *)
C15_FullDamageAfterResizeOrFont ==
    LET tracker == display.damage_tracker
        resized == \/ display_last.op = "new"
                   \/ /\ display_last.op = "handle_update"
                      /\ display_last.effects # <<>>
    IN  /\ resized =>
              /\ frame(tracker).full
              /\ Len(tracker.frames[1].lines) = display_last.new_size.screen_lines
              /\ Len(tracker.frames[2].lines) = display_last.new_size.screen_lines
        /\ (display_last.op = "handle_update" /\ display_last.font) =>
              frame(tracker).full

\* A handle_update that processed a font change which left the grid
\* dimensions as they were, on a frame that was not fully damaged.
C15_Witness ==
    /\ display_last.op = "handle_update"
    /\ display_last.font
    /\ display_last.effects = <<>>
    /\ ~display_last.pre_full
    /\ display.size_info.screen_lines > 1

(* C38: Display::handle_update notifies the PTY, resizes the terminal and  *)
(* resizes the damage tracker together, in that order, exactly when the    *)
(* newly computed size differs from the current one in screen_lines or     *)
(* columns; when neither differs none of the three resizes happens.  In    *)
(* every case the pending update is reset to its default and size_info     *)
(* ends equal to the newly computed size.                                  *)
C38_ResizeExactlyOnGridChange ==
    display_last.op = "handle_update" =>
        LET new_size == display_last.new_size
            differs == \/ display_last.pre_lines # new_size.screen_lines
                       \/ display_last.pre_columns # new_size.columns
            tracker == display.damage_tracker
        IN  /\ differs =>
                  display_last.effects = <<"pty_on_resize", "term_resize", "damage_resize">>
            /\ ~differs => display_last.effects = <<>>
            /\ tracker.screen_lines = new_size.screen_lines
            /\ tracker.columns = new_size.columns
            /\ Len(tracker.frames[1].lines) = new_size.screen_lines
            /\ Len(tracker.frames[2].lines) = new_size.screen_lines
            /\ display.pending_update = DisplayUpdateDefault
            /\ display.size_info = new_size

\* A handle_update whose new size differs from the current one in columns
\* only, with the three resizes done.
C38_Witness ==
    /\ display_last.op = "handle_update"
    /\ display_last.pre_lines = display_last.new_size.screen_lines
    /\ display_last.pre_columns # display_last.new_size.columns
    /\ display_last.effects # <<>>
    /\ display.size_info.columns = display_last.new_size.columns

----------------------------------------------------------------------------
(* Part 4: RenderDamageIterator.                                           *)
(*                                                                         *)
(* The iterator walks the damaged lines of one frame, in ascending line    *)
(* order, and turns them into pixel rectangles [x, y, width, height] with  *)
(* the origin at the bottom left of the window.                            *)

\* The screen has MaxScreenLines lines of MaxColumns columns.
MaxScreenLines == 3
MaxColumns == 6

Min(a, b) == IF a <= b THEN a ELSE b

\* Rect::new
Rect(x, y, width, height) == [x |-> x, y |-> y, width |-> width, height |-> height]

\* RenderDamageIterator::rect_for_line
rect_for_line(size_info, line_damage) ==
    LET y_top == size_info.height - size_info.padding_y
        x == size_info.padding_x + line_damage.left * size_info.cell_width
        y == y_top - (line_damage.line + 1) * size_info.cell_height
        width == (line_damage.right - line_damage.left + 1) * size_info.cell_width
    IN  Rect(x, y, width, size_info.cell_height)

\* RenderDamageIterator::overdamage
overdamage(size_info, rect) ==
    LET x == Max(rect.x - size_info.cell_width, 0)
        width == Min(size_info.width - x, rect.width + 2 * size_info.cell_width)
        y == Max(rect.y - size_info.cell_height \div 2, 0)
        height == Min(size_info.height - y, rect.height + size_info.cell_height)
    IN  Rect(x, y, width, height)

\* rects_overlap
rects_overlap(lhs, rhs) ==
    ~(\/ lhs.x + lhs.width < rhs.x
      \/ rhs.x + rhs.width < lhs.x
      \/ lhs.y + lhs.height < rhs.y
      \/ rhs.y + rhs.height < lhs.y)

\* Mutant of merge_rects: the rectangle merged in is dropped.
merge_rects_keep_lhs(lhs, rhs) == lhs

\* merge_rects
merge_rects(lhs, rhs) ==
    LET left_x == Min(lhs.x, rhs.x)
        right_x == Max(lhs.x + lhs.width, rhs.x + rhs.width)
        y_top == Max(lhs.y + lhs.height, rhs.y + rhs.height)
        y_bottom == Min(lhs.y, rhs.y)
    IN  Rect(left_x, y_bottom, right_x - left_x, y_top - y_bottom)

\* The loop of RenderDamageIterator::next: lines are merged into
\* total_damage_rect while the over-damaged rectangle of the next line
\* overlaps it.  The result holds the rectangle, the lines merged into it and
\* the lines left in the iterator.
RECURSIVE MergeOverlapping(_, _, _, _)
MergeOverlapping(size_info, total_damage_rect, merged, damaged_lines) ==
    IF damaged_lines = <<>>
    THEN [rect |-> total_damage_rect, merged |-> merged, rest |-> damaged_lines]
    ELSE LET next_rect == overdamage(size_info, rect_for_line(size_info, Head(damaged_lines)))
         IN  IF ~rects_overlap(total_damage_rect, next_rect)
             THEN [rect |-> total_damage_rect, merged |-> merged, rest |-> damaged_lines]
             ELSE MergeOverlapping(size_info,
                                   merge_rects(total_damage_rect, next_rect),
                                   Append(merged, Head(damaged_lines)),
                                   Tail(damaged_lines))

\* RenderDamageIterator::next, for an iterator with a damaged line left
RenderDamageIteratorNext(it) ==
    LET line == Head(it.damaged_lines)
        first == overdamage(it.size_info, rect_for_line(it.size_info, line))
        r == MergeOverlapping(it.size_info, first, <<line>>, Tail(it.damaged_lines))
    IN  [it EXCEPT !.damaged_lines = r.rest,
                   !.rects = Append(it.rects, r.rect),
                   !.groups = Append(it.groups, r.merged)]

\* The columns a line's damage starts and ends at.
DamageColumns == {0, 1, MaxColumns - 2, MaxColumns - 1}

\* The damage of one line: none, or the columns left..right.
LineDamages ==
    {<<>>} \cup {<<b>> : b \in {d \in [left : DamageColumns, right : DamageColumns] :
                                    d.left <= d.right}}

\* The damaged lines of a frame, in ascending line order.
RECURSIVE DamagedLines(_, _)
DamagedLines(per_line, line) ==
    IF line > Len(per_line) THEN <<>>
    ELSE (IF per_line[line] = <<>> THEN <<>>
          ELSE <<[line |-> line - 1, left |-> per_line[line][1].left,
                  right |-> per_line[line][1].right]>>)
         \o DamagedLines(per_line, line + 1)

\* A frame's damage is handed to the iterator with the window's size.
RenderDamageInit ==
    /\ \E font \in Fonts, padding \in 0 .. MaxPadding,
          per_line \in [1 .. MaxScreenLines -> LineDamages] :
          render_damage =
             [size_info |-> SizeInfoNew(MaxColumns * font.cell_width + 2 * padding,
                                        MaxScreenLines * font.cell_height + 2 * padding,
                                        font.cell_width, font.cell_height,
                                        padding, padding, FALSE),
              damaged_lines |-> DamagedLines(per_line, 1),
              rects |-> <<>>,
              groups |-> <<>>]
    /\ RenderDamageOthersIdle

RenderDamageNext ==
    /\ render_damage.damaged_lines # <<>>
    /\ render_damage' = RenderDamageIteratorNext(render_damage)
    /\ UNCHANGED RenderDamageOthers

SpecRenderDamage == RenderDamageInit /\ [][RenderDamageNext]_vars

\* Two rectangles share an area (more than an edge or a corner).
ShareArea(a, b) ==
    /\ a.x < b.x + b.width
    /\ b.x < a.x + a.width
    /\ a.y < b.y + b.height
    /\ b.y < a.y + a.height

(* C14, as stated: the pixel rectangles produced from the line damage of   *)
(* one frame are pairwise non-overlapping and are produced in the order of *)
(* the damaged lines (every line of an earlier rectangle precedes every    *)
(* line of a later one), for every list of damaged lines in ascending line *)
(* order.                                                                  *)
C14_RectsDisjointAndOrdered ==
    \A i \in 1 .. Len(render_damage.rects), j \in 1 .. Len(render_damage.rects) :
       i < j =>
          /\ ~ShareArea(render_damage.rects[i], render_damage.rects[j])
          /\ \A m \in 1 .. Len(render_damage.groups[i]),
                n \in 1 .. Len(render_damage.groups[j]) :
                render_damage.groups[i][m].line < render_damage.groups[j][n].line

\* The over-damaged rectangle of a damaged line.
LineRect(it, line) == overdamage(it.size_info, rect_for_line(it.size_info, line))

\* Rectangle outer contains the rectangle rect.
ContainsRect(outer, rect) ==
    /\ outer.x <= rect.x
    /\ outer.y <= rect.y
    /\ rect.x + rect.width <= outer.x + outer.width
    /\ rect.y + rect.height <= outer.y + outer.height

\* The smallest and the largest number of a non-empty finite set.
MinOf(S) == CHOOSE m \in S : \A n \in S : m <= n
MaxOf(S) == CHOOSE m \in S : \A n \in S : m >= n

\* The bounding rectangle of the over-damaged rectangles of a group of lines.
BoundingRect(it, group) ==
    LET rs == {LineRect(it, group[k]) : k \in 1 .. Len(group)}
        left_x == MinOf({r.x : r \in rs})
        y_bottom == MinOf({r.y : r \in rs})
    IN  Rect(left_x, y_bottom,
             MaxOf({r.x + r.width : r \in rs}) - left_x,
             MaxOf({r.y + r.height : r \in rs}) - y_bottom)

\* The lines of the groups from position i on, one group after the other.
RECURSIVE GroupedLines(_, _)
GroupedLines(groups, i) ==
    IF i > Len(groups) THEN <<>> ELSE groups[i] \o GroupedLines(groups, i + 1)

\* The damaged lines of the frame: those consumed, then those left.
FrameLines(it) == GroupedLines(it.groups, 1) \o it.damaged_lines

\* The rectangle of every group is the bounding rectangle of the
\* over-damaged rectangles of its lines and contains each of them, and
\* merge_rects is commutative and contains its operands.
GroupsAreBounded(it) ==
    LET lines == FrameLines(it)
    IN  /\ Len(it.rects) = Len(it.groups)
        /\ \A i \in 1 .. (Len(lines) - 1) : lines[i].line < lines[i + 1].line
        /\ \A i \in 1 .. Len(it.groups) :
              /\ it.groups[i] # <<>>
              /\ it.rects[i] = BoundingRect(it, it.groups[i])
              /\ \A k \in 1 .. Len(it.groups[i]) :
                    ContainsRect(it.rects[i], LineRect(it, it.groups[i][k]))
        /\ \A i \in 1 .. Len(lines) :
              \A j \in i .. Len(lines) :
                  LET lhs == LineRect(it, lines[i])
                      rhs == LineRect(it, lines[j])
                      merged == merge_rects(lhs, rhs)
                  IN  /\ merged = merge_rects(rhs, lhs)
                      /\ ContainsRect(merged, lhs)
                      /\ ContainsRect(merged, rhs)

(* C35: no damage is lost by merging.  Every call of next() moves damaged  *)
(* lines from the terminal's damage iterator into the group of the one     *)
(* rectangle it yields and drops or repeats none, so that every damaged    *)
(* line is consumed exactly once and in order; the rectangle of a group is *)
(* the bounding rectangle of the over-damaged rectangles of its lines and  *)
(* contains each of them; and merge_rects is commutative.                  *)
C35_NoDamageLost ==
    [][/\ FrameLines(render_damage') = FrameLines(render_damage)
       /\ Len(render_damage'.damaged_lines) < Len(render_damage.damaged_lines)
       /\ Len(render_damage'.rects) = Len(render_damage.rects) + 1
       /\ GroupsAreBounded(render_damage')]_vars

\* The frame is consumed: two rectangles were yielded, and the second
\* merged two lines whose over-damaged rectangles are both smaller than it.
C35_Witness ==
    /\ render_damage # <<>>
    /\ render_damage.damaged_lines = <<>>
    /\ Len(render_damage.rects) = 2
    /\ Len(render_damage.groups[2]) = 2
    /\ \A k \in 1 .. 2 :
          LineRect(render_damage, render_damage.groups[2][k]) # render_damage.rects[2]

----------------------------------------------------------------------------
(* Part 5: keyboard hints.  A character is its code point.                 *)

\* Hint alphabets have 2..MaxAlphabet unique characters.
MaxAlphabet == 4
\* Number of labels taken from one generator.
MaxLabels == 12

\* The unique-character alphabets over 'a', 'b', ...
AlphabetChars == 97 .. (97 + MaxAlphabet - 1)
Alphabets ==
    UNION {{a \in [1 .. k -> AlphabetChars] :
               \A i \in 1 .. k, j \in 1 .. k : i # j => a[i] # a[j]} :
           k \in 2 .. MaxAlphabet}

\* HintLabels::new(alphabet, HINT_SPLIT_PERCENTAGE): the split ratio is 0.5,
\* and ((len - 1) as f32 * 0.5) as usize is (len - 1) / 2 rounded down.
HintLabelsNew(alphabet) ==
    [alphabet |-> alphabet, indices |-> <<0>>, split_point |-> (Len(alphabet) - 1) \div 2]

\* The loop of HintLabels::increment over the indices after the first: pos
\* is the position in indices (1-based) the loop has reached.
RECURSIVE IncrementOthers(_, _, _, _)
IncrementOthers(indices, pos, alphabet_len, reset_to) ==
    IF pos > Len(indices) THEN Append(indices, reset_to)
    ELSE IF indices[pos] + 1 = alphabet_len
         THEN IncrementOthers([indices EXCEPT ![pos] = reset_to], pos + 1,
                              alphabet_len, reset_to)
         ELSE [indices EXCEPT ![pos] = indices[pos] + 1]

\* Mutant of increment: the other characters restart at the split point.
increment_from_split(g) ==
    IF g.indices[1] < g.split_point
    THEN [g EXCEPT !.indices[1] = g.indices[1] + 1]
    ELSE [g EXCEPT !.indices = IncrementOthers([g.indices EXCEPT ![1] = 0], 2,
                                               Len(g.alphabet), g.split_point)]

\* HintLabels::increment
increment(g) ==
    IF g.indices[1] < g.split_point
    THEN [g EXCEPT !.indices[1] = g.indices[1] + 1]
    ELSE [g EXCEPT !.indices = IncrementOthers([g.indices EXCEPT ![1] = 0], 2,
                                               Len(g.alphabet), g.split_point + 1)]

\* The characters HintLabels::next returns: the indices in reverse order,
\* each mapped to its character of the alphabet.
Characters(g) ==
    [i \in 1 .. Len(g.indices) |-> g.alphabet[g.indices[Len(g.indices) + 1 - i] + 1]]

\* HintLabels::next: the label and the generator afterwards
HintLabelsNextLabel(g) == [label |-> Characters(g), generator |-> increment(g)]

HintLabelsInit ==
    /\ \E alphabet \in Alphabets :
          hint_labels = [generator |-> HintLabelsNew(alphabet), produced |-> <<>>]
    /\ HintLabelsOthersIdle

HintLabelsNext ==
    /\ Len(hint_labels.produced) < MaxLabels
    /\ LET r == HintLabelsNextLabel(hint_labels.generator)
       IN  hint_labels' = [generator |-> r.generator,
                           produced |-> Append(hint_labels.produced, r.label)]
    /\ UNCHANGED HintLabelsOthers

SpecHintLabels == HintLabelsInit /\ [][HintLabelsNext]_vars

\* p is a strict prefix of q
IsStrictPrefix(p, q) == Len(p) < Len(q) /\ SubSeq(q, 1, Len(p)) = p

(* C16: for an alphabet of k >= 2 unique characters and the split ratio    *)
(* 0.5, the first n labels returned by HintLabels::next are, for every n,  *)
(* pairwise distinct and no label is a strict prefix of another.           *)
C16_LabelsDistinctPrefixFree ==
    \A i \in 1 .. Len(hint_labels.produced), j \in 1 .. Len(hint_labels.produced) :
       i # j =>
          /\ hint_labels.produced[i] # hint_labels.produced[j]
          /\ ~IsStrictPrefix(hint_labels.produced[i], hint_labels.produced[j])

\* MaxLabels labels from an alphabet of four characters (two of them for the
\* positions before the last), the last label three characters or longer.
C16_Witness ==
    /\ Len(hint_labels.produced) = MaxLabels
    /\ Len(hint_labels.generator.alphabet) >= 4
    /\ Len(hint_labels.produced[MaxLabels]) >= 3

----------------------------------------------------------------------------
(* Part 5, HintState.  A point of the grid is its position in display      *)
(* order, a Match is [start, end] with start <= end.  The terminal is      *)
(* what update_matches reads of it: the matches of the hyperlink iterator  *)
(* and those of the regex iterator (post-processed when the hint asks for  *)
(* it), each in the order found.                                           *)

\* Points are 0..MaxPoint.
MaxPoint == 3
\* update_matches is checked on lists of up to MaxCandidates regex matches.
MaxCandidates == 3
\* keyboard_input is checked on terminals showing up to MaxMatches matches.
MaxMatches == 4

Matches == {m \in [start : 0 .. MaxPoint, end : 0 .. MaxPoint] : m.start <= m.end}

\* HintState::new(alphabet)
HintStateNew(alphabet) ==
    [hint |-> None, alphabet |-> alphabet, matches |-> <<>>, labels |-> <<>>,
     keys |-> <<>>]

\* HintState::stop
stop(hs) == [hs EXCEPT !.matches = <<>>, !.labels = <<>>, !.keys = <<>>, !.hint = None]

\* The sort key (start, Reverse(end)) of a is less than or equal to that of b.
KeyLeq(a, b) == a.start < b.start \/ (a.start = b.start /\ a.end >= b.end)

\* matches.sort_by_key(|bounds| (*bounds.start(), Reverse(*bounds.end()))): a
\* stable sort, here by insertion behind the elements with a key not greater.
RECURSIVE InsertByKey(_, _)
InsertByKey(sorted, m) ==
    IF sorted = <<>> THEN <<m>>
    ELSE IF KeyLeq(Head(sorted), m) THEN <<Head(sorted)>> \o InsertByKey(Tail(sorted), m)
    ELSE <<m>> \o sorted

RECURSIVE SortByKeyFrom(_, _)
SortByKeyFrom(sorted, rest) ==
    IF rest = <<>> THEN sorted
    ELSE SortByKeyFrom(InsertByKey(sorted, Head(rest)), Tail(rest))

sort_by_key(ms) == SortByKeyFrom(<<>>, ms)

\* Mutant of dedup_by_key: of the matches with one start the last is kept.
RECURSIVE dedup_keep_last(_)
dedup_keep_last(ms) ==
    IF Len(ms) <= 1 THEN ms
    ELSE IF ms[2].start = ms[1].start
         THEN dedup_keep_last(Tail(ms))
         ELSE <<ms[1]>> \o dedup_keep_last(Tail(ms))

\* matches.dedup_by_key(|bounds| *bounds.start()): of consecutive matches
\* with the same start the first is kept.
RECURSIVE dedup_by_key(_)
dedup_by_key(ms) ==
    IF Len(ms) <= 1 THEN ms
    ELSE IF ms[2].start = ms[1].start
         THEN dedup_by_key(<<ms[1]>> \o SubSeq(ms, 3, Len(ms)))
         ELSE <<ms[1]>> \o dedup_by_key(Tail(ms))

\* The first n labels of a generator, in the order generated.
RECURSIVE GenerateLabels(_, _)
GenerateLabels(g, n) ==
    IF n = 0 THEN <<>>
    ELSE LET r == HintLabelsNextLabel(g)
         IN  <<r.label>> \o GenerateLabels(r.generator, n - 1)

\* The label shown for a match: what is left of it behind the keys pressed,
\* or nothing if it does not start with them.
RemainingLabel(label, keys) ==
    IF Len(label) >= Len(keys) /\ SubSeq(label, 1, Len(keys)) = keys
    THEN SubSeq(label, Len(keys) + 1, Len(label))
    ELSE <<>>

\* The matches update_matches collects from the terminal for a hint.
CollectMatches(hint, terminal) ==
    (IF hint.hyperlinks THEN terminal.hyperlinks ELSE <<>>)
    \o (IF hint.regex THEN terminal.regex ELSE <<>>)

\* HintState::update_matches
update_matches(hs, terminal) ==
    IF hs.hint = None THEN hs
    ELSE LET collected == CollectMatches(hs.hint[1], terminal)
         IN  IF collected = <<>> THEN stop(hs)
             ELSE LET matches == dedup_by_key(sort_by_key(collected))
                      match_count == Len(matches)
                      generated == GenerateLabels(HintLabelsNew(hs.alphabet), match_count)
                  IN  [hs EXCEPT
                          !.matches = matches,
                          !.labels = [i \in 1 .. match_count |->
                                         RemainingLabel(generated[match_count + 1 - i],
                                                        hs.keys)]]

\* The last index whose label is not empty and starts with c, or 0.
RECURSIVE FindLastLabel(_, _, _)
FindLastLabel(labels, c, i) ==
    IF i = 0 THEN 0
    ELSE IF labels[i] # <<>> /\ labels[i][1] = c THEN i
    ELSE FindLastLabel(labels, c, i - 1)

\* Mutant of keyboard_input: the first label starting with the character is
\* taken as selected.
keyboard_input_first(hs, terminal, c) ==
    LET keyed == IF c \in {8, 31}
                 THEN [hs EXCEPT !.keys = IF hs.keys = <<>> THEN <<>>
                                          ELSE SubSeq(hs.keys, 1, Len(hs.keys) - 1)]
                 ELSE IF c \in {27, 3} THEN stop(hs)
                 ELSE hs
        updated == update_matches(keyed, terminal)
        candidates == {i \in 1 .. Len(updated.labels) :
                          updated.labels[i] # <<>> /\ updated.labels[i][1] = c}
        found == IF candidates = {} THEN 0
                 ELSE CHOOSE i \in candidates : \A j \in candidates : i <= j
    IN  IF updated.hint = None \/ found = 0
        THEN [state |-> updated, result |-> None, matches |-> updated.matches]
        ELSE [state |-> IF updated.hint[1].persist
                        THEN [updated EXCEPT !.keys = <<>>]
                        ELSE stop(updated),
              result |-> Some([bounds |-> updated.matches[found]]),
              matches |-> updated.matches]

\* HintState::keyboard_input.  The result holds the state afterwards, the
\* returned Option<HintMatch> (its bounds) and the matches of the call.
keyboard_input(hs, terminal, c) ==
    LET keyed == IF c \in {8, 31}
                 THEN [hs EXCEPT !.keys = IF hs.keys = <<>> THEN <<>>
                                          ELSE SubSeq(hs.keys, 1, Len(hs.keys) - 1)]
                 ELSE IF c \in {27, 3} THEN stop(hs)
                 ELSE hs
        updated == update_matches(keyed, terminal)
        found == FindLastLabel(updated.labels, c, Len(updated.labels))
    IN  IF updated.hint = None \/ found = 0
        THEN [state |-> updated, result |-> None, matches |-> updated.matches]
        ELSE IF Len(updated.labels[found]) = 1
        THEN [state |-> IF updated.hint[1].persist
                        THEN [updated EXCEPT !.keys = <<>>]
                        ELSE stop(updated),
              result |-> Some([bounds |-> updated.matches[found]]),
              matches |-> updated.matches]
        ELSE [state |-> [updated EXCEPT !.keys = Append(updated.keys, c)],
              result |-> None,
              matches |-> updated.matches]

\* The hints of the configuration: what they match and whether they persist.
Hints == [hyperlinks : BOOLEAN, regex : BOOLEAN, persist : BOOLEAN]

\* The alphabets 'a'..'b', 'a'..'c', ... of the configuration.
ConfiguredAlphabets == {[i \in 1 .. k |-> 96 + i] : k \in 2 .. MaxAlphabet}

\* Terminals for keyboard_input: n regex matches of one cell, found from
\* the last to the first, and possibly a hyperlink at the start of the first.
KeyboardTerms ==
    {[hyperlinks |-> h, regex |-> [j \in 1 .. n |-> [start |-> n - j, end |-> n - j]]] :
        h \in {<<>>, <<[start |-> 0, end |-> 1]>>}, n \in 0 .. MaxMatches}

\* Terminals for update_matches: any list of up to MaxCandidates matches.
CandidateTerms ==
    {[hyperlinks |-> <<>>, regex |-> r] :
        r \in UNION {[1 .. n -> Matches] : n \in 0 .. MaxCandidates}}

HintRecord(op, c, result, matches) ==
    [op |-> op, c |-> c, result |-> result, matches |-> matches,
     pre_keys |-> hint_state.keys]

HintStateInit ==
    /\ \E alphabet \in ConfiguredAlphabets : hint_state = HintStateNew(alphabet)
    /\ hint_term \in KeyboardTerms
    /\ hint_last = [op |-> "new", c |-> 0, result |-> None, matches |-> <<>>,
                    pre_keys |-> <<>>]
    /\ HintStateOthersIdle

\* A hint binding was triggered: the hint becomes the active one.
HintStart ==
    /\ hint_state.hint = None
    /\ \E hint \in Hints : hint_state' = [hint_state EXCEPT !.hint = Some(hint)]
    /\ hint_last' = HintRecord("start", 0, None, hint_state.matches)
    /\ UNCHANGED <<hint_term, HintStateOthers>>

\* The display updates the matches and labels before it draws.
UpdateMatches ==
    /\ hint_state.hint # None
    /\ hint_state' = update_matches(hint_state, hint_term)
    /\ hint_last' = HintRecord("update_matches", 0, None, hint_state'.matches)
    /\ UNCHANGED <<hint_term, HintStateOthers>>

\* A key was pressed while a hint is active: a character of the alphabet,
\* backspace or escape.
KeyboardInput ==
    /\ hint_state.hint # None
    /\ \E c \in {hint_state.alphabet[i] : i \in 1 .. Len(hint_state.alphabet)} \cup {8, 27} :
          LET r == keyboard_input(hint_state, hint_term, c)
          IN  /\ hint_state' = r.state
              /\ hint_last' = HintRecord("keyboard_input", c, r.result, r.matches)
    /\ UNCHANGED <<hint_term, HintStateOthers>>

HintStateNext ==
    \/ HintStart
    \/ UpdateMatches
    \/ KeyboardInput

SpecHintState == HintStateInit /\ [][HintStateNext]_vars

\* update_matches on arbitrary lists of matches.
HintMatchesInit ==
    /\ hint_state = HintStateNew([i \in 1 .. 2 |-> 96 + i])
    /\ hint_term \in CandidateTerms
    /\ hint_last = [op |-> "new", c |-> 0, result |-> None, matches |-> <<>>,
                    pre_keys |-> <<>>]
    /\ HintStateOthersIdle

HintMatchesNext ==
    \/ HintStart
    \/ UpdateMatches

SpecHintMatches == HintMatchesInit /\ [][HintMatchesNext]_vars

(* C18: after update_matches sorts and deduplicates, the retained matches  *)
(* have strictly increasing, pairwise distinct start points, and for every *)
(* start point occurring among the candidate matches exactly one match     *)
(* survives: the one with the greatest end (the longest).                  *)
C18_OneLongestMatchPerStart ==
    (hint_last.op = "update_matches" /\ hint_state.hint # None) =>
        LET ms == hint_state.matches
            cs == CollectMatches(hint_state.hint[1], hint_term)
        IN  /\ \A i \in 1 .. (Len(ms) - 1) : ms[i].start < ms[i + 1].start
            /\ \A k \in 1 .. Len(cs) :
                  \E i \in 1 .. Len(ms) :
                     /\ ms[i].start = cs[k].start
                     /\ ms[i].end >= cs[k].end
            /\ \A i \in 1 .. Len(ms) : \E k \in 1 .. Len(cs) : ms[i] = cs[k]

\* The example of the claim, scaled to the points of the model: from
\* [0,3], [0,1], [2,3], found in another order, [0,3] and [2,3] remain.
C18_Witness ==
    /\ hint_last.op = "update_matches"
    /\ hint_state.hint # None
    /\ hint_term.regex = <<[start |-> 2, end |-> 3], [start |-> 0, end |-> 1],
                           [start |-> 0, end |-> 3]>>
    /\ hint_state.matches = <<[start |-> 0, end |-> 3], [start |-> 2, end |-> 3]>>

\* The whole label of match i of the matches ms: the generator's labels are
\* given out from the last match to the first.
FullLabel(ms, i) ==
    GenerateLabels(HintLabelsNew(hint_state.alphabet), Len(ms))[Len(ms) + 1 - i]

\* The last operation was keyboard_input with a character of the alphabet.
LabelKeyFed ==
    /\ hint_last.op = "keyboard_input"
    /\ \E i \in 1 .. Len(hint_state.alphabet) : hint_state.alphabet[i] = hint_last.c

\* The keys fed so far, with the character of the last keyboard_input.
KeysFed == Append(hint_last.pre_keys, hint_last.c)

\* The part of C17 about what keyboard_input returns and stores: the last
\* character of a label returns that label's match and no other, an earlier
\* character returns None and is stored in keys.
SelectsByLabel ==
    LabelKeyFed =>
        LET ms == hint_last.matches
        IN  /\ \A i \in 1 .. Len(ms) :
                  /\ FullLabel(ms, i) = KeysFed =>
                        hint_last.result = Some([bounds |-> ms[i]])
                  /\ IsStrictPrefix(KeysFed, FullLabel(ms, i)) =>
                        /\ hint_last.result = None
                        /\ hint_state.keys = KeysFed
            /\ hint_last.result # None =>
                  \E i \in 1 .. Len(ms) :
                     /\ FullLabel(ms, i) = KeysFed
                     /\ hint_last.result = Some([bounds |-> ms[i]])

(* C17, as stated: with an active hint and an unchanged terminal, for      *)
(* every visible match i with label c1..cn, feeding c1,..,cn in that order *)
(* to keyboard_input returns None for the first n-1 characters (each is    *)
(* stored in keys and labels()[i] shows the remaining suffix) and on cn    *)
(* returns a HintMatch whose bounds are exactly matches[i]; no other match *)
(* is ever returned for that input.                                        *)
C17_FeedingLabelSelects ==
    /\ SelectsByLabel
    /\ LabelKeyFed =>
          \A i \in 1 .. Len(hint_last.matches) :
             IsStrictPrefix(KeysFed, FullLabel(hint_last.matches, i)) =>
                hint_state.labels[i] = RemainingLabel(FullLabel(hint_last.matches, i),
                                                      KeysFed)

(* C17, amended: as stated, except that labels()[i] shows the remaining    *)
(* suffix only once update_matches has run again; when keyboard_input      *)
(* returns, it still shows the suffix from the character just fed.         *)
C17_FeedingLabelSelectsLabelsLag ==
    /\ SelectsByLabel
    /\ LabelKeyFed =>
          \A i \in 1 .. Len(hint_last.matches) :
             IsStrictPrefix(KeysFed, FullLabel(hint_last.matches, i)) =>
                hint_state.labels[i] = RemainingLabel(FullLabel(hint_last.matches, i),
                                                      hint_last.pre_keys)
    /\ (hint_last.op = "update_matches" /\ hint_state.hint # None) =>
          \A i \in 1 .. Len(hint_state.matches) :
             hint_state.labels[i] = RemainingLabel(FullLabel(hint_state.matches, i),
                                                   hint_state.keys)

\* The last character of a label of three characters was fed, after the
\* first two, and selected one of four matches.
C17_Witness ==
    /\ LabelKeyFed
    /\ Len(hint_last.pre_keys) >= 2
    /\ hint_last.result # None
    /\ Len(hint_last.matches) >= 4

----------------------------------------------------------------------------
(* Part 5, HintPostProcessor::hint_post_processing.  The grid is the       *)
(* sequence of its cells' characters in iteration order; a point is an     *)
(* index into it.  The regex match does not start at the first cell of the *)
(* grid, so the grid iterator can always step back from the match start.   *)

\* The grid has MaxGridCells cells.
MaxGridCells == 4

\* The characters on the grid: a ( ) [ ] and the full stop.
GridChars == {97, 40, 41, 91, 93, 46}

\* '.' | ',' | ':' | ';' | '?' | '!' | '(' | '[' | '\''
Delimiters == {46, 44, 58, 59, 63, 33, 40, 91, 39}

\* The first loop of hint_post_processing, with the iterator at pos on the
\* character c: the position and the character it ends with.
RECURSIVE TruncateBrackets(_, _, _, _, _, _)
TruncateBrackets(cells, finish, pos, c, open_parents, open_brackets) ==
    IF c = 41 /\ open_parents = 0 THEN [pos |-> pos - 1, c |-> c]
    ELSE IF c = 93 /\ open_brackets = 0 THEN [pos |-> pos - 1, c |-> c]
    ELSE IF pos = finish \/ pos = Len(cells) THEN [pos |-> pos, c |-> c]
    ELSE TruncateBrackets(cells, finish, pos + 1, cells[pos + 1],
                          IF c = 40 THEN open_parents + 1
                          ELSE IF c = 41 THEN open_parents - 1
                          ELSE open_parents,
                          IF c = 91 THEN open_brackets + 1
                          ELSE IF c = 93 THEN open_brackets - 1
                          ELSE open_brackets)

\* The second loop of hint_post_processing: the position it ends at.
RECURSIVE TruncateDelimiters(_, _, _, _)
TruncateDelimiters(cells, start, pos, c) ==
    IF pos = start THEN pos
    ELSE IF c \notin Delimiters THEN pos
    ELSE IF pos = 1 THEN pos
    ELSE TruncateDelimiters(cells, start, pos - 1, cells[pos - 1])

\* HintPostProcessor::hint_post_processing
hint_post_processing(cells, regex_match) ==
    LET start == regex_match.start
        b == TruncateBrackets(cells, regex_match.end, start, cells[start], 0, 0)
        pos == TruncateDelimiters(cells, start, b.pos, b.c)
    IN  IF start > pos THEN None ELSE Some([start |-> start, end |-> pos])

PostProcessorInit ==
    /\ \E cells \in [1 .. MaxGridCells -> GridChars],
          start \in 2 .. MaxGridCells, finish \in 2 .. MaxGridCells :
          /\ start <= finish
          /\ post_processor = [cells |-> cells,
                               regex_match |-> [start |-> start, end |-> finish],
                               processed |-> FALSE,
                               result |-> None]
    /\ PostProcessorOthersIdle

PostProcess ==
    /\ ~post_processor.processed
    /\ post_processor' =
          [post_processor EXCEPT
              !.processed = TRUE,
              !.result = hint_post_processing(post_processor.cells,
                                              post_processor.regex_match)]
    /\ UNCHANGED PostProcessorOthers

SpecPostProcessor == PostProcessorInit /\ [][PostProcess]_vars

\* The number of cells from..upto holding the character ch.
CountChar(cells, from, upto, ch) ==
    Cardinality({q \in from .. upto : cells[q] = ch})

\* The cell at p closes a bracket that no cell from start on has opened:
\* the cells before it are balanced for its kind and never closed too many.
UnbalancedClosing(cells, start, p) ==
    \E kind \in {<<40, 41>>, <<91, 93>>} :
       /\ cells[p] = kind[2]
       /\ CountChar(cells, start, p - 1, kind[1]) = CountChar(cells, start, p - 1, kind[2])

\* The first cell of the match that is an unbalanced closing bracket, or 0.
FirstUnbalanced(cells, m) ==
    LET us == {p \in m.start .. m.end :
                  /\ UnbalancedClosing(cells, m.start, p)
                  /\ \A q \in m.start .. (p - 1) : ~UnbalancedClosing(cells, m.start, q)}
    IN  IF us = {} THEN 0 ELSE CHOOSE p \in us : TRUE

(* C19, as stated: for every regex match, hint post-processing returns a   *)
(* range that starts at the match's start and from whose end every         *)
(* unbalanced closing ')' or ']' (nesting counted from the match start)    *)
(* and every trailing delimiter has been removed: a returned match longer  *)
(* than one cell never ends in a delimiter character, also when the        *)
(* delimiter directly preceded a removed unbalanced bracket.               *)
C19_NoTrailingDelimiter ==
    (post_processor.processed /\ post_processor.result # None) =>
        LET r == post_processor.result[1]
            cells == post_processor.cells
            unbalanced == FirstUnbalanced(cells, post_processor.regex_match)
        IN  /\ r.start = post_processor.regex_match.start
            /\ r.end <= post_processor.regex_match.end
            /\ unbalanced # 0 => r.end < unbalanced
            /\ r.end > r.start => cells[r.end] \notin Delimiters

----------------------------------------------------------------------------
(* Part 5, visible_unique_hyperlinks_iter.  The display iterator is the    *)
(* sequence of the visible cells in display order, each carrying an        *)
(* optional hyperlink, and the number of cells already taken from it.      *)

\* The display has MaxDisplayCells visible cells.
MaxDisplayCells == 5

\* The hyperlinks are 1 .. MaxHyperlinks.
MaxHyperlinks == 2

Hyperlinks == 1 .. MaxHyperlinks

\* Cell::hyperlink of each visible cell
DisplayCells == [1 .. MaxDisplayCells -> {None} \cup {Some(h) : h \in Hyperlinks}]

\* The last cell of the run of cells carrying hyperlink that starts at start:
\* the peek loop of the closure.
RECURSIVE RunEnd(_, _, _)
RunEnd(cells, hyperlink, finish) ==
    IF finish < Len(cells) /\ cells[finish + 1] = Some(hyperlink)
    THEN RunEnd(cells, hyperlink, finish + 1)
    ELSE finish

\* Mutant of visible_unique_hyperlinks_next: the hyperlink found is not
\* recorded in unique_hyperlinks.
visible_unique_hyperlinks_no_insert(it) ==
    LET found == {i \in (it.taken + 1) .. Len(it.cells) :
                     /\ it.cells[i] # None
                     /\ it.cells[i][1] \notin it.unique_hyperlinks}
    IN  IF found = {}
        THEN [it EXCEPT !.taken = Len(it.cells), !.exhausted = TRUE]
        ELSE LET start == CHOOSE i \in found : \A j \in found : i <= j
                 hyperlink == it.cells[start][1]
                 finish == RunEnd(it.cells, hyperlink, start)
             IN  [it EXCEPT
                    !.taken = finish,
                    !.yielded = Append(@, [start |-> start, end |-> finish])]

\* One call of the closure given to iter::from_fn.
visible_unique_hyperlinks_next(it) ==
    LET found == {i \in (it.taken + 1) .. Len(it.cells) :
                     /\ it.cells[i] # None
                     /\ it.cells[i][1] \notin it.unique_hyperlinks}
    IN  IF found = {}
        THEN [it EXCEPT !.taken = Len(it.cells), !.exhausted = TRUE]
        ELSE LET start == CHOOSE i \in found : \A j \in found : i <= j
                 hyperlink == it.cells[start][1]
                 finish == RunEnd(it.cells, hyperlink, start)
             IN  [it EXCEPT
                    !.taken = finish,
                    !.unique_hyperlinks = @ \cup {hyperlink},
                    !.yielded = Append(@, [start |-> start, end |-> finish])]

\* visible_unique_hyperlinks_iter
HyperlinksInit ==
    /\ \E cells \in DisplayCells :
          hyperlinks_iter = [cells |-> cells,
                             taken |-> 0,
                             unique_hyperlinks |-> {},
                             yielded |-> <<>>,
                             exhausted |-> FALSE]
    /\ HyperlinksOthersIdle

HyperlinksIterNext ==
    /\ ~hyperlinks_iter.exhausted
    /\ hyperlinks_iter' = visible_unique_hyperlinks_next(hyperlinks_iter)
    /\ UNCHANGED HyperlinksOthers

SpecHyperlinks == HyperlinksInit /\ [][HyperlinksIterNext]_vars

\* The first contiguous run, in display order, of cells carrying h.
FirstRun(cells, h) ==
    LET start == CHOOSE i \in 1 .. Len(cells) :
                    /\ cells[i] = Some(h)
                    /\ \A j \in 1 .. (i - 1) : cells[j] # Some(h)
        finish == CHOOSE e \in start .. Len(cells) :
                    /\ \A j \in start .. e : cells[j] = Some(h)
                    /\ (e = Len(cells) \/ cells[e + 1] # Some(h))
    IN  [start |-> start, end |-> finish]

\* The hyperlinks carried by a visible cell.
VisibleHyperlinks(cells) == {h \in Hyperlinks : \E i \in 1 .. Len(cells) : cells[i] = Some(h)}

(* C20: visible_unique_hyperlinks_iter yields, for every distinct          *)
(* hyperlink carried by a visible cell, exactly one match, whose range is  *)
(* the first contiguous run in display order of cells carrying that        *)
(* hyperlink; a later run of the same hyperlink yields no further match.   *)
C20_OneMatchPerHyperlink ==
    LET cells == hyperlinks_iter.cells
        yielded == hyperlinks_iter.yielded
    IN  /\ \A k \in 1 .. Len(yielded) :
              \E h \in VisibleHyperlinks(cells) : yielded[k] = FirstRun(cells, h)
        /\ \A k, n \in 1 .. Len(yielded) : yielded[k] = yielded[n] => k = n
        /\ hyperlinks_iter.exhausted =>
              /\ Len(yielded) = Cardinality(VisibleHyperlinks(cells))
              /\ \A h \in VisibleHyperlinks(cells) :
                    \E k \in 1 .. Len(yielded) : yielded[k] = FirstRun(cells, h)

\* The iterator is exhausted on a display where a hyperlink has a later run
\* after another hyperlink's run, and both hyperlinks have been yielded.
C20_Witness ==
    /\ hyperlinks_iter # <<>>
    /\ hyperlinks_iter.exhausted
    /\ Len(hyperlinks_iter.yielded) = 2
    /\ \E h \in Hyperlinks : \E i \in 1 .. MaxDisplayCells :
          /\ hyperlinks_iter.cells[i] = Some(h)
          /\ i > FirstRun(hyperlinks_iter.cells, h).end

----------------------------------------------------------------------------
(* Part 6: the Scheduler (scheduler.rs).  Instants and durations are       *)
(* natural numbers of milliseconds; the clock moves only between the       *)
(* operations, so every Instant::now() inside one operation reads the same *)
(* value.  A timer is [deadline, event, id, interval], its id is           *)
(* [topic, window_id] and its event [payload, window_id].                  *)

\* TYPING_SEARCH_DELAY, in milliseconds
TYPING_SEARCH_DELAY == 500

\* MAX_SEARCH_WHILE_TYPING: Some(1000) lines
MAX_SEARCH_WHILE_TYPING == 1000

\* The queue holds at most MaxTimers timers.
MaxTimers == 3

\* Timers are scheduled with an interval of 0 .. MaxInterval milliseconds.
MaxInterval == 1

\* The clock is read at most MaxTicks times with a new value.
MaxTicks == 1

\* The program opens one window (Processor::create_initial_window).
Windows == {"window"}
Topics == {"Frame", "DelayedSearch"}

\* TimerId::new
TimerIdNew(topic, window_id) == [topic |-> topic, window_id |-> window_id]

\* Event::new
EventNew(payload, window_id) == [payload |-> payload, window_id |-> window_id]

\* The event a timer of each topic carries.
EventFor(topic, window_id) ==
    EventNew(IF topic = "Frame" THEN "Frame" ELSE "SearchNext", window_id)

\* Scheduler::new
SchedulerNew == [timers |-> <<>>]

\* VecDeque::insert(index, timer), index counted from 0
InsertTimer(timers, i, timer) ==
    SubSeq(timers, 1, i) \o <<timer>> \o SubSeq(timers, i + 1, Len(timers))

\* Mutant of schedule: the timer is inserted before the first timer whose
\* deadline is not earlier.
schedule_before_equal(s, t_now, event, interval, repeat, timer_id) ==
    LET deadline == t_now + interval
        later == {i \in 1 .. Len(s.timers) : s.timers[i].deadline >= deadline}
        position == IF later = {} THEN Len(s.timers)
                    ELSE (CHOOSE i \in later : \A j \in later : i <= j) - 1
    IN  [s EXCEPT !.timers =
            InsertTimer(@, position,
                        [interval |-> IF repeat THEN Some(interval) ELSE None,
                         deadline |-> deadline, event |-> event, id |-> timer_id])]

\* Scheduler::schedule, with Instant::now() = t_now
schedule(s, t_now, event, interval, repeat, timer_id) ==
    LET deadline == t_now + interval
        later == {i \in 1 .. Len(s.timers) : s.timers[i].deadline > deadline}
        position == IF later = {} THEN Len(s.timers)
                    ELSE (CHOOSE i \in later : \A j \in later : i <= j) - 1
    IN  [s EXCEPT !.timers =
            InsertTimer(@, position,
                        [interval |-> IF repeat THEN Some(interval) ELSE None,
                         deadline |-> deadline, event |-> event, id |-> timer_id])]

\* The loop of Scheduler::update: the scheduler it leaves and the events it
\* has sent, in the order of sending.
RECURSIVE UpdateLoop(_, _, _)
UpdateLoop(s, t_now, sent) ==
    IF s.timers # <<>> /\ s.timers[1].deadline <= t_now
    THEN LET timer == Head(s.timers)
             popped == [s EXCEPT !.timers = Tail(@)]
             repeated == IF timer.interval # None
                         THEN schedule(popped, t_now, timer.event,
                                       timer.interval[1], TRUE, timer.id)
                         ELSE popped
         IN  UpdateLoop(repeated, t_now, Append(sent, timer.event))
    ELSE [scheduler |-> s, sent |-> sent]

\* Mutant of update: a timer that fires is never repeated.
update_no_repeat(s, t_now) ==
    LET fired == SelectSeq(s.timers, LAMBDA timer : timer.deadline <= t_now)
        kept == SelectSeq(s.timers, LAMBDA timer : timer.deadline > t_now)
    IN  [scheduler |-> [s EXCEPT !.timers = kept],
         sent |-> [i \in 1 .. Len(fired) |-> fired[i].event],
         result |-> IF kept = <<>> THEN None ELSE Some(kept[1].deadline)]

\* Scheduler::update, with Instant::now() = t_now
update(s, t_now) ==
    LET r == UpdateLoop(s, t_now, <<>>)
    IN  [scheduler |-> r.scheduler,
         sent |-> r.sent,
         result |-> IF r.scheduler.timers = <<>> THEN None
                    ELSE Some(r.scheduler.timers[1].deadline)]

\* Scheduler::scheduled
scheduled(s, timer_id) == \E i \in 1 .. Len(s.timers) : s.timers[i].id = timer_id

\* Scheduler::unschedule
unschedule(s, timer_id) ==
    LET found == {i \in 1 .. Len(s.timers) : s.timers[i].id = timer_id}
    IN  IF found = {} THEN s
        ELSE LET i == CHOOSE i \in found : \A j \in found : i <= j
             IN  [s EXCEPT !.timers = SubSeq(@, 1, i - 1) \o SubSeq(@, i + 1, Len(@))]

\* What the last operation was, when it ran, the timer it dealt with and
\* what it gave back.
SchedulerRecord(op, timer, sent, result) ==
    [op |-> op, at |-> now, timer |-> timer, sent |-> sent, result |-> result]

SchedulerInit ==
    /\ scheduler = SchedulerNew
    /\ now = 0
    /\ proxy = <<>>
    /\ scheduler_last = [op |-> "new", at |-> 0, timer |-> None, sent |-> <<>>,
                         result |-> None]
    /\ SchedulerOthersIdle

\* Time passes: the next Instant::now() reads a later value.
Tick ==
    /\ now < MaxTicks
    /\ now' = now + 1
    /\ UNCHANGED <<scheduler, proxy, scheduler_last>>
    /\ UNCHANGED SchedulerOthers

\* A call of Scheduler::schedule.  A repeating timer has an interval the
\* clock can measure, so that its next deadline is later than now.
Schedule ==
    /\ Len(scheduler.timers) < MaxTimers
    /\ \E topic \in Topics, window_id \in Windows, interval \in 0 .. MaxInterval,
          repeat \in BOOLEAN :
          /\ repeat => interval > 0
          /\ scheduler' = schedule(scheduler, now,
                                   EventFor(topic, window_id), interval, repeat,
                                   TimerIdNew(topic, window_id))
          /\ scheduler_last' =
                SchedulerRecord("schedule",
                                Some([interval |-> IF repeat THEN Some(interval) ELSE None,
                                      deadline |-> now + interval,
                                      event |-> EventFor(topic, window_id),
                                      id |-> TimerIdNew(topic, window_id)]),
                                <<>>, None)
    /\ UNCHANGED <<now, proxy>>
    /\ UNCHANGED SchedulerOthers

\* A call of Scheduler::update; the events go to the event loop's proxy.
Update ==
    /\ proxy = <<>>
    /\ LET r == update(scheduler, now)
       IN  /\ scheduler' = r.scheduler
           /\ proxy' = r.sent
           /\ scheduler_last' = SchedulerRecord("update", None, r.sent, r.result)
    /\ UNCHANGED now
    /\ UNCHANGED SchedulerOthers

\* The event loop takes the next user event from the proxy.
Deliver ==
    /\ proxy # <<>>
    /\ proxy' = Tail(proxy)
    /\ UNCHANGED <<scheduler, now, scheduler_last>>
    /\ UNCHANGED SchedulerOthers

SchedulerNext == Tick \/ Schedule \/ Update \/ Deliver

SpecScheduler == SchedulerInit /\ [][SchedulerNext]_vars

\* The timers of a queue that satisfy a condition on the deadline, in queue
\* order.
Due(timers, t_now) == SelectSeq(timers, LAMBDA timer : timer.deadline <= t_now)
NotDue(timers, t_now) == SelectSeq(timers, LAMBDA timer : timer.deadline > t_now)

\* The events of a sequence of timers.
EventsOf(timers) == [i \in 1 .. Len(timers) |-> timers[i].event]

\* s is t with some elements left out.
RECURSIVE IsSubsequence(_, _)
IsSubsequence(s, t) ==
    IF s = <<>> THEN TRUE
    ELSE IF t = <<>> THEN FALSE
    ELSE IF Head(s) = Head(t) THEN IsSubsequence(Tail(s), Tail(t))
    ELSE IsSubsequence(s, Tail(t))

(* C21: the timers are ordered by non-decreasing deadline (a new timer is  *)
(* inserted before the first timer with a strictly later deadline);        *)
(* update() removes and emits, in queue order, exactly the timers whose    *)
(* deadline is <= now, and returns the earliest remaining deadline, or     *)
(* None when no timer is pending.  A repeating timer that was emitted has  *)
(* its next occurrence in the queue, with a later deadline.                *)
C21_TimersOrderedUpdateEmitsDue ==
    LET timers == scheduler.timers
        updated == update(scheduler, now)
        remaining == updated.scheduler.timers
    IN  /\ \A i, j \in 1 .. Len(timers) :
              i < j => timers[i].deadline <= timers[j].deadline
        /\ scheduler_last.op = "schedule" =>
              \E i \in 1 .. Len(timers) :
                 /\ timers[i] = scheduler_last.timer[1]
                 /\ \A j \in 1 .. (i - 1) : timers[j].deadline <= timers[i].deadline
                 /\ \A j \in (i + 1) .. Len(timers) : timers[j].deadline > timers[i].deadline
        /\ updated.sent = EventsOf(Due(timers, now))
        /\ \A i \in 1 .. Len(remaining) : remaining[i].deadline > now
        /\ IsSubsequence(NotDue(timers, now), remaining)
        /\ Len(remaining) = Len(NotDue(timers, now))
              + Len(SelectSeq(Due(timers, now), LAMBDA timer : timer.interval # None))
        /\ updated.result = IF remaining = <<>> THEN None ELSE Some(remaining[1].deadline)
        /\ \A i \in 1 .. Len(remaining) : updated.result[1] <= remaining[i].deadline
        /\ scheduler_last.op = "update" =>
              /\ \A i \in 1 .. Len(timers) : timers[i].deadline > scheduler_last.at
              /\ scheduler_last.result =
                    IF timers = <<>> THEN None ELSE Some(timers[1].deadline)

\* update has emitted two due timers in queue order and left a later one,
\* after a timer was scheduled between two others.
C21_Witness ==
    /\ scheduler_last # <<>>
    /\ scheduler_last.op = "update"
    /\ Len(scheduler_last.sent) >= 2
    /\ scheduler_last.sent[1] # scheduler_last.sent[2]
    /\ scheduler.timers # <<>>
    /\ scheduler_last.result = Some(scheduler.timers[1].deadline)

\* The timers of a queue that fire once, in queue order.
OneShot(timers) == SelectSeq(timers, LAMBDA timer : timer.interval = None)

(* C36: update() re-enqueues every repeating timer that fires, with the    *)
(* same id, event and interval and a deadline one interval after the time  *)
(* of the call, so a repeating timer stays pending in every later state;   *)
(* a timer scheduled without repeat is removed when it fires; and one call *)
(* of update() emits each due timer exactly once.                          *)
C36_RepeatingTimersStayPending ==
    /\ [](scheduler # <<>> =>
            LET timers == scheduler.timers
                due == Due(timers, now)
                updated == update(scheduler, now)
                remaining == updated.scheduler.timers
            IN  /\ \A i \in 1 .. Len(due) :
                      due[i].interval # None =>
                          /\ due[i].interval[1] > 0
                          /\ \E j \in 1 .. Len(remaining) :
                                remaining[j] =
                                    [due[i] EXCEPT !.deadline = now + due[i].interval[1]]
                /\ OneShot(remaining) = OneShot(NotDue(timers, now))
                /\ Len(updated.sent) = Len(due)
                /\ \A i \in 1 .. Len(due) : updated.sent[i] = due[i].event)
    /\ [][\A i \in 1 .. Len(scheduler.timers) :
              scheduler.timers[i].interval # None =>
                  \E j \in 1 .. Len(scheduler'.timers) :
                      /\ scheduler'.timers[j].id = scheduler.timers[i].id
                      /\ scheduler'.timers[j].event = scheduler.timers[i].event
                      /\ scheduler'.timers[j].interval = scheduler.timers[i].interval]_vars

\* update has fired a repeating timer and a timer without repeat: the first
\* is pending again, one interval later, and the second is gone.
C36_Witness ==
    /\ scheduler_last # <<>>
    /\ scheduler_last.op = "update"
    /\ Len(scheduler_last.sent) = 2
    /\ scheduler_last.sent[1] # scheduler_last.sent[2]
    /\ Len(scheduler.timers) = 1
    /\ scheduler.timers[1].interval # None
    /\ scheduler.timers[1].deadline = scheduler_last.at + scheduler.timers[1].interval[1]

----------------------------------------------------------------------------
(* Part 6, the event loop (Processor::run) of the one window: the events   *)
(* it receives, WindowContext::handle_event and draw, the search while     *)
(* typing and the frame timer.  The window is on X11 and not occluded, and *)
(* the terminal is not in vi mode.  A context is the record                *)
(* [window_context, search_state, scheduler] an ActionContext works on.    *)

\* The search regex has at most MaxRegexLen characters.
MaxRegexLen == 2

\* At most MaxEvents events wait in WindowContext::event_queue.
MaxEvents == 1

\* A window is drawn only while fewer than MaxPending timers are pending.
MaxPending == 2

\* The characters typed into the search: a ( and backspace.
SearchKeys == {97, 40, 8}

\* RegexSearch::new(regex).ok(): a regex compiles when its parentheses
\* are balanced.
RegexSearchNew(regex) ==
    IF Cardinality({i \in 1 .. Len(regex) : regex[i] = 40})
         = Cardinality({i \in 1 .. Len(regex) : regex[i] = 41})
    THEN Some(regex) ELSE None

\* Term::total_lines(): below the limit of the search while typing, or not.
TotalLines == {MAX_SEARCH_WHILE_TYPING - 1, MAX_SEARCH_WHILE_TYPING}

DelayedSearchId == TimerIdNew("DelayedSearch", "window")
FrameId == TimerIdNew("Frame", "window")

\* Window::request_redraw
request_redraw(c) == [c EXCEPT !.window_context.requested_redraw = TRUE]

\* ActionContext::search_reset_state
search_reset_state(c) ==
    [c EXCEPT !.scheduler = unschedule(@, DelayedSearchId),
              !.search_state.focused_match = None]

\* Mutant of goto_match: the delayed search is scheduled without asking
\* whether it is scheduled already.
goto_match_schedule_again(c, t_now, limit, total_lines, found) ==
    IF c.search_state.dfas = None THEN c
    ELSE LET lim == IF limit # None /\ limit[1] <= total_lines THEN limit ELSE None
             moved ==
                IF found # None
                THEN [c EXCEPT !.search_state.focused_match = found,
                               !.scheduler = unschedule(@, DelayedSearchId)]
                ELSE IF lim = None THEN search_reset_state(c)
                ELSE [c EXCEPT
                        !.scheduler =
                            schedule(@, t_now, EventNew("SearchNext", "window"),
                                     TYPING_SEARCH_DELAY, FALSE, DelayedSearchId),
                        !.search_state.focused_match = None,
                        !.limited = TRUE]
         IN  [moved EXCEPT !.window_context.dirty = TRUE]

\* ActionContext::goto_match; found is what Term::search_next returns.
goto_match(c, t_now, limit, total_lines, found) ==
    IF c.search_state.dfas = None THEN c
    ELSE LET lim == IF limit # None /\ limit[1] <= total_lines THEN limit ELSE None
             moved ==
                IF found # None
                THEN [c EXCEPT !.search_state.focused_match = found,
                               !.scheduler = unschedule(@, DelayedSearchId)]
                ELSE IF lim = None THEN search_reset_state(c)
                ELSE [c EXCEPT
                        !.scheduler =
                            IF ~scheduled(@, DelayedSearchId)
                            THEN schedule(@, t_now, EventNew("SearchNext", "window"),
                                          TYPING_SEARCH_DELAY, FALSE, DelayedSearchId)
                            ELSE @,
                        !.search_state.focused_match = None,
                        !.limited = TRUE]
         IN  [moved EXCEPT !.window_context.dirty = TRUE]

\* ActionContext::update_search
update_search(c, t_now, total_lines, found) ==
    IF c.search_state.regex = None THEN c
    ELSE IF c.search_state.regex[1] = <<>>
    THEN [search_reset_state(c) EXCEPT !.search_state.dfas = None,
                                       !.window_context.dirty = TRUE]
    ELSE LET compiled == [c EXCEPT !.search_state.dfas =
                                       RegexSearchNew(c.search_state.regex[1])]
             searched == goto_match(compiled, t_now, Some(MAX_SEARCH_WHILE_TYPING),
                                    total_lines,
                                    IF compiled.search_state.dfas = None THEN None
                                    ELSE found)
         IN  [searched EXCEPT !.window_context.dirty = TRUE]

\* ActionContext::search_input: the key changes the regex, then the search
\* is updated.
search_input(c, t_now, key, total_lines, found) ==
    IF c.search_state.regex = None THEN c
    ELSE LET regex == c.search_state.regex[1]
             typed == IF key = 8
                      THEN SubSeq(regex, 1, Len(regex) - 1)
                      ELSE Append(regex, key)
         IN  update_search([c EXCEPT !.search_state.regex = Some(typed),
                                     !.limited = FALSE],
                           t_now, total_lines, found)

\* input::Processor::handle_event for one queued event: a key typed into
\* the search, or the SearchNext event of the delayed search.
ProcessEvent(c, t_now, event, total_lines, matching) ==
    LET found == IF matching /\ c.search_state.dfas # None
                 THEN Some([regex |-> c.search_state.dfas[1]]) ELSE None
    IN  IF event.payload = "SearchNext"
        THEN goto_match([c EXCEPT !.limited = FALSE], t_now, None, total_lines, found)
        ELSE LET regex == c.search_state.regex[1]
                 typed == IF event.key = 8 THEN SubSeq(regex, 1, Len(regex) - 1)
                          ELSE Append(regex, event.key)
                 compiled == RegexSearchNew(typed)
             IN  search_input(c, t_now, event.key, total_lines,
                              IF matching /\ compiled # None
                              THEN Some([regex |-> typed]) ELSE None)

\* The loop over event_queue.drain(..)
RECURSIVE ProcessEvents(_, _, _, _, _)
ProcessEvents(c, t_now, events, total_lines, matching) ==
    IF events = <<>> THEN c
    ELSE ProcessEvents(ProcessEvent(c, t_now, Head(events), total_lines, matching),
                       t_now, Tail(events), total_lines, matching)

\* WindowContext::handle_event for AboutToWait and RedrawRequested
handle_event(c, t_now, redraw_requested, total_lines, matching) ==
    IF c.window_context.event_queue = <<>> THEN c
    ELSE LET processed ==
                ProcessEvents([c EXCEPT !.window_context.event_queue = <<>>], t_now,
                              c.window_context.event_queue, total_lines, matching)
         IN  IF /\ processed.window_context.dirty
                /\ processed.window_context.has_frame
                /\ ~redraw_requested
             THEN request_redraw(processed)
             ELSE processed

\* Mutant of request_frame: the frame is used, but no Frame timer is set.
request_frame_no_timer(c, t_now, swap_timeout) ==
    [c EXCEPT !.window_context.has_frame = FALSE]

\* Display::request_frame, with the timeout FrameTimer::compute_timeout gives
request_frame(c, t_now, swap_timeout) ==
    [c EXCEPT !.window_context.has_frame = FALSE,
              !.scheduler = schedule(@, t_now, EventNew("Frame", "window"),
                                     swap_timeout, FALSE, FrameId)]

\* WindowContext::draw and Display::draw
draw(c, t_now, swap_timeout) ==
    request_frame([c EXCEPT !.window_context.requested_redraw = FALSE,
                            !.window_context.dirty = FALSE],
                  t_now, swap_timeout)

\* The context the variables hold.
Context ==
    [window_context |-> window_context, search_state |-> search_state,
     scheduler |-> scheduler, limited |-> FALSE]

\* The variables take the context c; the record says whether the last key
\* handled ran into the search limit without a match, and when, and
\* whether handle_event has unscheduled the pending delayed search.
SetContext(c, handled) ==
    /\ window_context' = c.window_context
    /\ search_state' = c.search_state
    /\ scheduler' = c.scheduler
    /\ scheduler_last' = [limited |-> c.limited,
                          at |-> IF c.limited THEN now ELSE 0,
                          unscheduled |-> /\ scheduled(scheduler, DelayedSearchId)
                                          /\ ~scheduled(handled.scheduler, DelayedSearchId)]

EventLoopInit ==
    /\ scheduler = SchedulerNew
    /\ now = 0
    /\ proxy = <<>>
    /\ scheduler_last = [limited |-> FALSE, at |-> 0, unscheduled |-> FALSE]
    /\ window_context = [dirty |-> FALSE, has_frame |-> TRUE,
                         requested_redraw |-> FALSE, event_queue |-> <<>>]
    /\ search_state = [regex |-> Some(<<>>), dfas |-> None, focused_match |-> None]
    /\ EventLoopOthersIdle

\* Time passes: by a millisecond, or until the deadline of the delayed
\* search.
Sleep ==
    /\ \E t \in {now + 1} \cup {scheduler.timers[i].deadline : i \in 1 .. Len(scheduler.timers)} :
          /\ t > now
          /\ \/ t <= MaxTicks
             \/ /\ \E i \in 1 .. Len(scheduler.timers) :
                      /\ scheduler.timers[i].id = DelayedSearchId
                      /\ scheduler.timers[i].deadline = t
                /\ t <= TYPING_SEARCH_DELAY + MaxTicks
          /\ now' = t
    /\ UNCHANGED <<scheduler, proxy, scheduler_last, window_context, search_state>>
    /\ UNCHANGED EventLoopOthers

\* UserEvent Terminal(Wakeup)
Wakeup ==
    /\ LET c == [Context EXCEPT !.window_context.dirty = TRUE]
       IN  SetContext(IF c.window_context.has_frame THEN request_redraw(c) ELSE c,
                      Context)
    /\ UNCHANGED <<now, proxy>>
    /\ UNCHANGED EventLoopOthers

\* UserEvent Frame
FrameEvent ==
    /\ proxy # <<>>
    /\ Head(proxy).payload = "Frame"
    /\ proxy' = Tail(proxy)
    /\ LET c == [Context EXCEPT !.window_context.has_frame = TRUE]
       IN  SetContext(IF c.window_context.dirty THEN request_redraw(c) ELSE c, Context)
    /\ UNCHANGED now
    /\ UNCHANGED EventLoopOthers

\* UserEvent SearchNext: a window-specific event, queued by handle_event
SearchNextEvent ==
    /\ proxy # <<>>
    /\ Head(proxy).payload = "SearchNext"
    /\ Len(window_context.event_queue) < MaxEvents
    /\ proxy' = Tail(proxy)
    /\ SetContext([Context EXCEPT !.window_context.event_queue = Append(@, Head(proxy))],
                  Context)
    /\ UNCHANGED now
    /\ UNCHANGED EventLoopOthers

\* WindowEvent KeyboardInput while the search is active: queued by handle_event
KeyboardInputEvent ==
    /\ Len(window_context.event_queue) < MaxEvents
    /\ \E key \in SearchKeys :
          /\ key # 8 => Len(search_state.regex[1]) < MaxRegexLen
          /\ SetContext([Context EXCEPT !.window_context.event_queue =
                                            Append(@, [payload |-> "KeyboardInput", key |-> key])],
                        Context)
    /\ UNCHANGED <<now, proxy>>
    /\ UNCHANGED EventLoopOthers

\* What the terminal holds while handle_event runs: its total lines and
\* whether the regex searched for has a match.  Nothing is searched when no
\* event is queued.
TermContents ==
    IF window_context.event_queue = <<>>
    THEN {[total_lines |-> MAX_SEARCH_WHILE_TYPING, matching |-> FALSE]}
    ELSE [total_lines : TotalLines, matching : BOOLEAN]

\* WindowEvent RedrawRequested: after request_redraw, or when the X server
\* exposes the window.
RedrawRequested ==
    /\ Len(scheduler.timers) < MaxPending
    /\ \E contents \in TermContents, swap_timeout \in {0, MaxInterval} :
          LET c == handle_event(Context, now, TRUE, contents.total_lines,
                                contents.matching)
          IN  SetContext(draw(c, now, swap_timeout), c)
    /\ UNCHANGED <<now, proxy>>
    /\ UNCHANGED EventLoopOthers

\* AboutToWait: every event received has been dispatched.
AboutToWait ==
    /\ proxy = <<>>
    /\ \E contents \in TermContents :
          LET c == handle_event(Context, now, FALSE, contents.total_lines,
                                contents.matching)
              r == update(c.scheduler, now)
          IN  /\ SetContext([c EXCEPT !.scheduler = r.scheduler], c)
              /\ proxy' = r.sent
    /\ UNCHANGED now
    /\ UNCHANGED EventLoopOthers

EventLoopNext ==
    \/ Sleep
    \/ Wakeup
    \/ FrameEvent
    \/ SearchNextEvent
    \/ KeyboardInputEvent
    \/ RedrawRequested
    \/ AboutToWait

SpecEventLoop == EventLoopInit /\ [][EventLoopNext]_vars

\* The pending timers with the id.
Pending(s, timer_id) == SelectSeq(s.timers, LAMBDA timer : timer.id = timer_id)

(* C23, as stated: a TimerId uniquely identifies a timer: in every         *)
(* reachable state the Scheduler holds at most one pending timer per       *)
(* (topic, window) id, including the Frame timer scheduled by              *)
(* Display::request_frame after each draw.                                 *)
C23_OneTimerPerId ==
    \A topic \in Topics, window_id \in Windows :
        Len(Pending(scheduler, TimerIdNew(topic, window_id))) <= 1

\* A queue without its timers of the id.
Others(s, timer_id) == SelectSeq(s.timers, LAMBDA timer : timer.id # timer_id)

----------------------------------------------------------------------------
(* Part 6, frame pacing: the event loop without the search, for as long as *)
(* the program runs.  The clock is kept relative: when time passes every   *)
(* pending deadline comes a millisecond closer and Instant::now() stays 0, *)
(* a deadline that has passed staying at 0.  The record of the last step   *)
(* names the event handled; deferred says that a Wakeup has arrived while  *)
(* has_frame was false and no draw has happened since, and served that the *)
(* step was the draw after such a Wakeup.                                  *)

\* The variables take the context c after the event op.
PacingStep(c, op, deferred, served) ==
    /\ window_context' = c.window_context
    /\ scheduler' = c.scheduler
    /\ scheduler_last' = [op |-> op, deferred |-> deferred, served |-> served]
    /\ UNCHANGED <<now, search_state>>
    /\ UNCHANGED EventLoopOthers

PacingInit ==
    /\ scheduler = SchedulerNew
    /\ now = 0
    /\ proxy = <<>>
    /\ scheduler_last = [op |-> "new", deferred |-> FALSE, served |-> FALSE]
    /\ window_context = [dirty |-> FALSE, has_frame |-> TRUE,
                         requested_redraw |-> FALSE, event_queue |-> <<>>]
    /\ search_state = [regex |-> None, dfas |-> None, focused_match |-> None]
    /\ EventLoopOthersIdle

\* A millisecond passes.
Elapse ==
    /\ \E i \in 1 .. Len(scheduler.timers) : scheduler.timers[i].deadline > 0
    /\ scheduler' = [scheduler EXCEPT !.timers =
                        [i \in 1 .. Len(@) |->
                            [@[i] EXCEPT !.deadline = Max(@ - 1, 0)]]]
    /\ UNCHANGED <<now, proxy, scheduler_last, window_context, search_state>>
    /\ UNCHANGED EventLoopOthers

\* UserEvent Terminal(Wakeup): the PTY reader has new content
PacingWakeup ==
    /\ LET c == [Context EXCEPT !.window_context.dirty = TRUE]
       IN  PacingStep(IF c.window_context.has_frame THEN request_redraw(c) ELSE c,
                      "Wakeup",
                      scheduler_last.deferred \/ ~window_context.has_frame, FALSE)
    /\ UNCHANGED proxy

\* UserEvent Frame, sent by the Frame timer
PacingFrame ==
    /\ proxy # <<>>
    /\ Head(proxy).payload = "Frame"
    /\ proxy' = Tail(proxy)
    /\ LET c == [Context EXCEPT !.window_context.has_frame = TRUE]
       IN  PacingStep(IF c.window_context.dirty THEN request_redraw(c) ELSE c,
                      "Frame", scheduler_last.deferred, FALSE)

\* WindowEvent RedrawRequested, which winit delivers after request_redraw
PacingRedraw ==
    /\ window_context.requested_redraw
    /\ \E swap_timeout \in 0 .. MaxInterval :
          PacingStep(draw(handle_event(Context, now, TRUE, MAX_SEARCH_WHILE_TYPING, FALSE),
                          now, swap_timeout),
                     "RedrawRequested", FALSE, scheduler_last.deferred)
    /\ UNCHANGED proxy

\* WindowEvent RedrawRequested without a request: the X server exposes the
\* window.
PacingExpose ==
    /\ ~window_context.requested_redraw
    /\ Len(scheduler.timers) + Len(proxy) < MaxTimers
    /\ \E swap_timeout \in 0 .. MaxInterval :
          PacingStep(draw(handle_event(Context, now, TRUE, MAX_SEARCH_WHILE_TYPING, FALSE),
                          now, swap_timeout),
                     "Expose", FALSE, scheduler_last.deferred)
    /\ UNCHANGED proxy

\* AboutToWait: the timers that are due send their events.
PacingAboutToWait ==
    /\ proxy = <<>>
    /\ LET c == handle_event(Context, now, FALSE, MAX_SEARCH_WHILE_TYPING, FALSE)
           r == update(c.scheduler, now)
       IN  /\ PacingStep([c EXCEPT !.scheduler = r.scheduler], "AboutToWait",
                         scheduler_last.deferred, FALSE)
           /\ proxy' = r.sent

PacingNext ==
    \/ Elapse
    \/ PacingWakeup
    \/ PacingFrame
    \/ PacingRedraw
    \/ PacingExpose
    \/ PacingAboutToWait

\* Time passes, the event loop comes to AboutToWait, and the events sent
\* through the proxy and the redraws requested from winit are delivered.
SpecFramePacing ==
    /\ PacingInit
    /\ [][PacingNext]_vars
    /\ WF_vars(Elapse)
    /\ WF_vars(PacingAboutToWait)
    /\ WF_vars(PacingFrame)
    /\ WF_vars(PacingRedraw)

(* C37: no wakeup is lost by frame pacing.  A Wakeup marks the window      *)
(* dirty, and a dirty window is eventually drawn.  A Wakeup that arrives   *)
(* while has_frame is false requests no redraw and leaves dirty set; a     *)
(* Frame event sets has_frame and requests the redraw of a dirty window;   *)
(* and dirty is cleared only by a draw, which uses the frame and sets the  *)
(* Frame timer.                                                            *)
C37_NoWakeupLost ==
    /\ (window_context # <<>> /\ window_context.dirty)
          ~> (scheduler_last.op \in {"RedrawRequested", "Expose"}
              /\ ~window_context.dirty)
    /\ [](scheduler_last # <<>> =>
            /\ scheduler_last.op = "Wakeup" => window_context.dirty
            /\ (scheduler_last.op = "Wakeup" /\ ~window_context.has_frame) =>
                  (~window_context.requested_redraw /\ scheduler_last.deferred)
            /\ (scheduler_last.op = "Frame") =>
                  /\ window_context.has_frame
                  /\ window_context.dirty => window_context.requested_redraw
            /\ (window_context.dirty /\ window_context.has_frame) =>
                  window_context.requested_redraw
            /\ ~window_context.has_frame =>
                  (scheduled(scheduler, FrameId) \/ proxy # <<>>))
    /\ [][(window_context.dirty /\ ~window_context'.dirty) =>
              /\ scheduler_last'.op \in {"RedrawRequested", "Expose"}
              /\ ~window_context'.has_frame
              /\ Len(scheduler'.timers) = Len(scheduler.timers) + 1]_vars

\* The window was drawn for a Wakeup that had arrived while has_frame was
\* false.
C37_Witness ==
    /\ scheduler_last # <<>>
    /\ scheduler_last.op = "RedrawRequested"
    /\ scheduler_last.served
    /\ ~window_context.dirty

----------------------------------------------------------------------------
(* Part 7: the renderable content (display/content.rs).  An Rgb is a gray  *)
(* level r = g = b; an alpha and the window opacity are percentages, 100   *)
(* for 1.0.  A Color is Named(name) or Spec(rgb); the cells carry neither  *)
(* DIM nor BOLD, so that a named foreground is the color of its name.      *)

\* The gray levels of the colors: black, the clear color of the window and
\* white.
Grays == {0, 24, 255}

\* Percentage::new clamps the window opacity to 0.0 ..= 1.0.
Opacities == {0, 50, 100}

Named(name) == [kind |-> "Named", name |-> name]
SpecColor(rgb) == [kind |-> "Spec", rgb |-> rgb]

\* The colors a cell is written with.
CellColors == {Named("Foreground"), Named("Background")} \cup {SpecColor(v) : v \in Grays}

\* Flags of a cell, without DIM and BOLD.
CellFlags == SUBSET {"INVERSE", "UNDERLINE", "WIDE_CHAR_SPACER"}

\* The cells of the terminal: character (a space or a letter), colors,
\* flags, and whether the cell has extra data (zerowidth or hyperlink).
TermCells == [c : {32, 97}, fg : CellColors, bg : CellColors, flags : CellFlags,
              extra : BOOLEAN]

\* UiConfig: colors.transparent_background_colors and window_opacity()
TransparencyConfigs == [transparent_background_colors : BOOLEAN, window_opacity : Opacities]

\* The color list of the display: the RGB of each named color.
ColorLists == [{"Foreground", "Background"} -> Grays]

\* RenderableContent::color
ContentColor(content, name) == content.colors[name]

\* RenderableCell::compute_fg_rgb, for flags without DIM and BOLD
compute_fg_rgb(content, fg, flags) ==
    IF fg.kind = "Spec" THEN fg.rgb ELSE ContentColor(content, fg.name)

\* RenderableCell::compute_bg_rgb
compute_bg_rgb(content, bg) ==
    IF bg.kind = "Spec" THEN bg.rgb ELSE ContentColor(content, bg.name)

\* Mutant of compute_bg_alpha: every named background is transparent.
compute_bg_alpha_any_named(config, bg) ==
    IF bg.kind = "Named" THEN 0
    ELSE IF config.transparent_background_colors THEN config.window_opacity
    ELSE 100

\* RenderableCell::compute_bg_alpha
compute_bg_alpha(config, bg) ==
    IF bg = Named("Background") THEN 0
    ELSE IF config.transparent_background_colors THEN config.window_opacity
    ELSE 100

\* Mutant of RenderableCellNew: an INVERSE cell keeps its colors.
RenderableCellNew_no_swap(content, cell, point) ==
    LET fg == compute_fg_rgb(content, cell.fg, cell.flags)
        bg == compute_bg_rgb(content, cell.bg)
        inverse == "INVERSE" \in cell.flags
        alpha == IF inverse THEN 100 ELSE compute_bg_alpha(content.config, cell.bg)
    IN  [character |-> cell.c,
         point |-> point,
         fg |-> fg,
         bg |-> bg,
         bg_alpha |-> IF alpha > 0 /\ content.config.transparent_background_colors
                      THEN content.config.window_opacity ELSE alpha,
         flags |-> cell.flags,
         extra |-> cell.extra]

\* RenderableCell::new
RenderableCellNew(content, cell, point) ==
    LET fg == compute_fg_rgb(content, cell.fg, cell.flags)
        bg == compute_bg_rgb(content, cell.bg)
        inverse == "INVERSE" \in cell.flags
        alpha == IF inverse THEN 100 ELSE compute_bg_alpha(content.config, cell.bg)
    IN  [character |-> cell.c,
         point |-> point,
         fg |-> IF inverse THEN bg ELSE fg,
         bg |-> IF inverse THEN fg ELSE bg,
         bg_alpha |-> IF alpha > 0 /\ content.config.transparent_background_colors
                      THEN content.config.window_opacity ELSE alpha,
         flags |-> cell.flags,
         extra |-> cell.extra]

\* A RenderableContent over one cell, and the RenderableCell built from it.
RenderableCellInit ==
    /\ \E config \in TransparencyConfigs, colors \in ColorLists, cell \in TermCells :
          renderable = [config |-> config, colors |-> colors, cell |-> cell,
                        built |-> None]
    /\ RenderableOthersIdle

BuildCell ==
    /\ renderable.built = None
    /\ renderable' = [renderable EXCEPT
                         !.built = Some(RenderableCellNew(renderable, renderable.cell, 0))]
    /\ UNCHANGED RenderableOthers

SpecRenderableCell == RenderableCellInit /\ [][BuildCell]_vars

(* C26, as stated: every RenderableCell built from a cell carrying the     *)
(* INVERSE flag has its resolved foreground and background swapped and is  *)
(* fully opaque (bg_alpha == 1), regardless of the transparency            *)
(* configuration.                                                          *)
C26_InverseIsOpaque ==
    (renderable.built # None /\ "INVERSE" \in renderable.cell.flags) =>
        LET built == renderable.built[1]
        IN  /\ built.fg = compute_bg_rgb(renderable, renderable.cell.bg)
            /\ built.bg = compute_fg_rgb(renderable, renderable.cell.fg,
                                         renderable.cell.flags)
            /\ built.bg_alpha = 100

(* C26, amended: an INVERSE cell has its resolved colors swapped, and its  *)
(* bg_alpha is 1 unless transparent_background_colors is set, when it is   *)
(* the window opacity.                                                     *)
C26_InverseIsOpaqueUnlessAllTransparent ==
    (renderable.built # None /\ "INVERSE" \in renderable.cell.flags) =>
        LET built == renderable.built[1]
        IN  /\ built.fg = compute_bg_rgb(renderable, renderable.cell.bg)
            /\ built.bg = compute_fg_rgb(renderable, renderable.cell.fg,
                                         renderable.cell.flags)
            /\ built.bg_alpha =
                  IF renderable.config.transparent_background_colors
                  THEN renderable.config.window_opacity ELSE 100

\* An INVERSE cell on the default background, with different colors, was
\* built under a translucent window without transparent_background_colors.
C26_Witness ==
    /\ renderable # <<>>
    /\ renderable.built # None
    /\ "INVERSE" \in renderable.cell.flags
    /\ renderable.cell.bg = Named("Background")
    /\ renderable.built[1].fg # renderable.built[1].bg
    /\ renderable.config.window_opacity = 50
    /\ ~renderable.config.transparent_background_colors
    /\ renderable.built[1].bg_alpha = 100

(* C27, as stated: for a cell without INVERSE the background alpha is 0    *)
(* only when the cell's original background color is exactly               *)
(* Named(Background).                                                      *)
C27_ZeroAlphaOnlyForNamedBackground ==
    (renderable.built # None /\ "INVERSE" \notin renderable.cell.flags) =>
        (renderable.built[1].bg_alpha = 0 => renderable.cell.bg = Named("Background"))

(* C27, amended: for a cell without INVERSE the background alpha is 0      *)
(* exactly when the cell's original background color is Named(Background), *)
(* or transparent_background_colors is set and the window opacity is 0; a  *)
(* cell whose explicit color resolves to the RGB of the default background *)
(* gets the alpha of any other explicit color.                             *)
C27_ZeroAlphaBySemanticColor ==
    (renderable.built # None /\ "INVERSE" \notin renderable.cell.flags) =>
        LET built == renderable.built[1]
            config == renderable.config
        IN  /\ built.bg_alpha = 0 <=>
                  \/ renderable.cell.bg = Named("Background")
                  \/ config.transparent_background_colors /\ config.window_opacity = 0
            /\ renderable.cell.bg # Named("Background") =>
                  built.bg_alpha = IF config.transparent_background_colors
                                   THEN config.window_opacity ELSE 100

\* A cell with an explicit background of the RGB of the default background
\* was built, and is not transparent.
C27_Witness ==
    /\ renderable # <<>>
    /\ renderable.built # None
    /\ "INVERSE" \notin renderable.cell.flags
    /\ renderable.cell.bg.kind = "Spec"
    /\ renderable.built[1].bg = ContentColor(renderable, "Background")
    /\ renderable.config.transparent_background_colors
    /\ renderable.built[1].bg_alpha = 50

(* The iterator over the renderable cells and the cursor it stores.  The   *)
(* display iterator walks the visible cells in row-major order; a point is *)
(* the position of a cell in that order, 0 a cursor outside the viewport.  *)

\* MIN_CURSOR_CONTRAST = 1.5, in hundredths.
MIN_CURSOR_CONTRAST == 150

\* Largest number of visible cells of the display iterator.
MaxRenderCells == 3

\* Rgb::luminance of a gray level, in thousandths.
Luminance(rgb) == CASE rgb = 0 -> 0 [] rgb = 24 -> 9 [] OTHER -> 1000

\* Rgb::contrast, in hundredths: (lighter + 0.05) / (darker + 0.05)
contrast(a, b) ==
    LET lighter == IF Luminance(a) >= Luminance(b) THEN Luminance(a) ELSE Luminance(b)
        darker == IF Luminance(a) >= Luminance(b) THEN Luminance(b) ELSE Luminance(a)
    IN  ((lighter + 50) * 100) \div (darker + 50)

\* CellRgb: CellForeground, CellBackground or Rgb(rgb)
CellForeground == [kind |-> "CellForeground"]
CellBackground == [kind |-> "CellBackground"]
CellRgbOf(rgb) == [kind |-> "Rgb", rgb |-> rgb]
CellRgbs == {CellForeground, CellBackground} \cup {CellRgbOf(v) : v \in Grays}

\* CellRgb::color
CellRgbColor(color, fg, bg) ==
    CASE color.kind = "CellForeground" -> fg
      [] color.kind = "CellBackground" -> bg
      [] OTHER -> color.rgb

\* RenderableContent::renderable_cursor
renderable_cursor(content, cell) ==
    LET color == IF content.vi_mode THEN content.config.vi_mode_cursor
                 ELSE content.config.cursor
        cursor_color == IF content.term_cursor = None THEN color.background
                        ELSE CellRgbOf(content.term_cursor[1])
        text_color == color.foreground
        insufficient_contrast ==
            /\ cursor_color.kind # "Rgb" \/ text_color.kind # "Rgb"
            /\ contrast(cell.fg, cell.bg) < MIN_CURSOR_CONTRAST
    IN  [is_wide |-> "WIDE_CHAR" \in cell.flags,
         shape |-> content.cursor_shape,
         point |-> content.cursor_point,
         cursor_color |-> IF insufficient_contrast
                          THEN content.config.primary.foreground
                          ELSE CellRgbColor(cursor_color, cell.fg, cell.bg),
         text_color |-> IF insufficient_contrast
                        THEN content.config.primary.background
                        ELSE CellRgbColor(text_color, cell.fg, cell.bg)]

\* Mutant of is_empty: extra data does not count.
is_empty_ignore_extra(cell) ==
    /\ cell.bg_alpha = 0
    /\ cell.character = 32
    /\ "UNDERLINE" \notin cell.flags

\* RenderableCell::is_empty
is_empty(cell) ==
    /\ cell.bg_alpha = 0
    /\ cell.character = 32
    /\ ~cell.extra
    /\ "UNDERLINE" \notin cell.flags

\* The loop of RenderableContent::next from position i of the display
\* iterator: the content afterwards and the item returned.
RECURSIVE NextLoop(_, _)
NextLoop(content, i) ==
    IF i > Len(content.cells)
    THEN [content |-> [content EXCEPT !.display_iter = Len(content.cells)],
          item |-> None]
    ELSE LET cell == RenderableCellNew(content, content.cells[i], i)
         IN  IF content.cursor_point = cell.point
             THEN LET cursor == renderable_cursor(content, cell)
                      item == IF cursor.shape = "Block"
                              THEN [cell EXCEPT !.fg = cursor.text_color,
                                                !.bg = cursor.cursor_color,
                                                !.bg_alpha = 100]
                              ELSE cell
                  IN  [content |-> [content EXCEPT !.display_iter = i,
                                                   !.cursor = Some(cursor)],
                       item |-> Some(item)]
             ELSE IF ~is_empty(cell) /\ "WIDE_CHAR_SPACER" \notin cell.flags
             THEN [content |-> [content EXCEPT !.display_iter = i], item |-> Some(cell)]
             ELSE NextLoop(content, i + 1)

\* Iterator::next of RenderableContent
RenderableContentNext(content) == NextLoop(content, content.display_iter + 1)

\* The cells of the display: a blank cell, a letter, spaces that are not
\* empty (coloured, underlined, with extra data, inverse), a wide character
\* and its spacer, blank or coloured.
RenderCell(c, bg, flags, extra) ==
    [c |-> c, fg |-> Named("Foreground"), bg |-> bg, flags |-> flags, extra |-> extra]

RenderCells ==
    {RenderCell(32, Named("Background"), {}, FALSE),
     RenderCell(97, Named("Background"), {}, FALSE),
     RenderCell(32, SpecColor(0), {}, FALSE),
     RenderCell(32, Named("Background"), {"UNDERLINE"}, FALSE),
     RenderCell(32, Named("Background"), {}, TRUE),
     RenderCell(32, Named("Background"), {"INVERSE"}, FALSE),
     RenderCell(19990, Named("Background"), {"WIDE_CHAR"}, FALSE),
     RenderCell(32, Named("Background"), {"WIDE_CHAR_SPACER"}, FALSE),
     RenderCell(32, SpecColor(0), {"WIDE_CHAR_SPACER"}, FALSE)}

\* A WIDE_CHAR cell is followed by its spacer, and a spacer follows one.
WideCharsPaired(cells) ==
    \A i \in 1..Len(cells) :
        /\ "WIDE_CHAR" \in cells[i].flags =>
              (i < Len(cells) /\ "WIDE_CHAR_SPACER" \in cells[i + 1].flags)
        /\ "WIDE_CHAR_SPACER" \in cells[i].flags =>
              (i > 1 /\ "WIDE_CHAR" \in cells[i - 1].flags)

CursorShapes == {"Block", "Beam", "Hidden"}

\* The cursor colors of the configuration: text color and cursor color.
CursorColors == [foreground : CellRgbs, background : CellRgbs]

\* Default cursor colors: the cell's colors inverted.
DefaultCursorColors == [foreground |-> CellBackground, background |-> CellForeground]

\* RenderableContent::new: the state of the iterator before the first next().
RenderableContentNew(config, colors, vi_mode, term_cursor, cells, point, shape) ==
    [config |-> config, colors |-> colors, vi_mode |-> vi_mode,
     term_cursor |-> term_cursor, cells |-> cells, cursor_point |-> point,
     cursor_shape |-> shape, display_iter |-> 0, cursor |-> None,
     yielded |-> <<>>, done |-> FALSE]

\* The display iterator over every row of cells; the cursor is outside the
\* viewport or on a cell that is not a spacer.
RenderableContentInit ==
    /\ \E n \in 0..MaxRenderCells :
          \E cells \in [1..n -> RenderCells], point \in 0..n, shape \in CursorShapes,
             transparent \in BOOLEAN, opacity \in {0, 50} :
              /\ WideCharsPaired(cells)
              /\ point > 0 => "WIDE_CHAR_SPACER" \notin cells[point].flags
              /\ renderable = RenderableContentNew(
                    [transparent_background_colors |-> transparent,
                     window_opacity |-> opacity,
                     cursor |-> DefaultCursorColors,
                     vi_mode_cursor |-> DefaultCursorColors,
                     primary |-> [foreground |-> 255, background |-> 24]],
                    [name \in {"Foreground", "Background"} |->
                        IF name = "Foreground" THEN 255 ELSE 24],
                    FALSE, None, cells, point, shape)
    /\ RenderableOthersIdle

\* One call of next() by the renderer.
IterNext ==
    /\ ~renderable.done
    /\ LET r == RenderableContentNext(renderable)
       IN  renderable' = [r.content EXCEPT
                             !.yielded = IF r.item = None THEN @ ELSE Append(@, r.item[1]),
                             !.done = (r.item = None)]
    /\ UNCHANGED RenderableOthers

SpecRenderableContent == RenderableContentInit /\ [][IterNext]_vars

\* Visually empty, from the cell of the terminal: a space without extra
\* data and underline whose background is built with alpha 0.
VisuallyEmpty(content, cell) ==
    /\ cell.c = 32
    /\ ~cell.extra
    /\ "UNDERLINE" \notin cell.flags
    /\ RenderableCellNew(content, cell, 0).bg_alpha = 0

\* The cells the iterator is to yield.
ToYield(content, i) ==
    \/ i = content.cursor_point
    \/ /\ ~VisuallyEmpty(content, content.cells[i])
       /\ "WIDE_CHAR_SPACER" \notin content.cells[i].flags

\* The points in 1..n to yield, in row-major order.
RECURSIVE PointsToYield(_, _)
PointsToYield(content, n) ==
    IF n = 0 THEN <<>>
    ELSE IF ToYield(content, n) THEN Append(PointsToYield(content, n - 1), n)
    ELSE PointsToYield(content, n - 1)

RenderableCursorInit ==
    /\ \E cursor \in CursorColors, vi_mode \in BOOLEAN,
          term_cursor \in {None} \cup {Some(v) : v \in Grays},
          primary_fg \in Grays, primary_bg \in Grays,
          fg \in Grays, bg \in Grays, shape \in {"Block", "Beam"} :
          renderable = RenderableContentNew(
              [transparent_background_colors |-> FALSE,
               window_opacity |-> 100,
               cursor |-> cursor,
               vi_mode_cursor |-> DefaultCursorColors,
               primary |-> [foreground |-> primary_fg, background |-> primary_bg]],
              [name \in {"Foreground", "Background"} |->
                  IF name = "Foreground" THEN primary_fg ELSE primary_bg],
              vi_mode, term_cursor,
              <<[c |-> 97, fg |-> SpecColor(fg), bg |-> SpecColor(bg), flags |-> {},
                 extra |-> FALSE]>>,
              1, shape)
    /\ RenderableOthersIdle

SpecRenderableCursor == RenderableCursorInit /\ [][IterNext]_vars

\* The cursor color of the configuration in use, before any adjustment.
ConfiguredCursorColor(content) ==
    LET color == IF content.vi_mode THEN content.config.vi_mode_cursor
                 ELSE content.config.cursor
    IN  IF content.term_cursor = None THEN color.background
        ELSE CellRgbOf(content.term_cursor[1])

(* C29: when the primary colors contrast and the cursor color has a        *)
(* contrast below 1.5 against the background of the cell under it, the     *)
(* cursor color returned by renderable_cursor has a contrast of at least   *)
(* 1.5 against the returned text color, for fixed and cell-relative        *)
(* cursor colors.                                                          *)
C29_CursorContrast ==
    (/\ renderable # <<>>
     /\ renderable.cursor # None
     /\ contrast(renderable.config.primary.foreground,
                 renderable.config.primary.background) >= MIN_CURSOR_CONTRAST) =>
        LET cell == RenderableCellNew(renderable, renderable.cells[1], 1)
            unadjusted == CellRgbColor(ConfiguredCursorColor(renderable), cell.fg, cell.bg)
            cursor == renderable.cursor[1]
        IN  contrast(unadjusted, cell.bg) < MIN_CURSOR_CONTRAST =>
                contrast(cursor.cursor_color, cursor.text_color) >= MIN_CURSOR_CONTRAST

----------------------------------------------------------------------------
(* Part 8: the iterator shortening a text to a width (string.rs).  A text  *)
(* is a sequence of characters: 97 'a' of width 1 and 12385, a hiragana of *)
(* width 2; the shortener is 46 '.'.                                       *)

\* Largest number of characters of a text.
MaxTextLen == 3

\* Largest max_width.
MaxWidth == 4

TextChars == {97, 12385}

\* UnicodeWidthChar::width
CharWidth(ch) == IF ch = 12385 THEN 2 ELSE 1

Shorteners == {None, Some(46)}

\* The loop of StrShortener::new for ShortenDirection::Left: walks the text
\* from its end and counts the characters that fit.
RECURSIVE LeftScan(_, _, _, _, _, _)
LeftScan(text, max_width, idx, offset, current_len, shortener) ==
    IF idx >= Len(text)
    THEN [offset |-> offset, current_len |-> current_len, shortener |-> shortener]
    ELSE LET width == current_len + CharWidth(text[Len(text) - idx])
         IN  IF width > max_width
             THEN [offset |-> offset, current_len |-> width, shortener |-> shortener]
             ELSE IF width = max_width /\ shortener # None /\ idx + 1 < Len(text)
             THEN [offset |-> offset, current_len |-> width, shortener |-> shortener]
             ELSE LeftScan(text, max_width, idx + 1, idx + 1, width,
                           IF width = max_width THEN None ELSE shortener)

\* StrShortener::new
StrShortenerNew(text, max_width, direction, shortener) ==
    LET given == IF text = <<>> THEN None ELSE shortener
        scan == LeftScan(text, max_width, 0, 0, 0, given)
    IN  IF direction = "Right"
        THEN [chars |-> text, accumulated_len |-> 0, max_width |-> max_width,
              direction |-> direction, shortener |-> given, text_action |-> "Char"]
        ELSE [chars |-> SubSeq(text, Len(text) - scan.offset + 1, Len(text)),
              accumulated_len |-> 0, max_width |-> max_width,
              direction |-> direction, shortener |-> scan.shortener,
              text_action |-> IF scan.current_len < max_width \/ scan.shortener = None
                              THEN "Char" ELSE "Shortener"]

\* Iterator::next of StrShortener: the iterator afterwards and the item.
StrShortenerNext(s) ==
    CASE s.text_action = "Spacer" ->
            [s |-> [s EXCEPT !.text_action = "Char"], item |-> Some(32)]
      [] s.text_action = "Terminate" ->
            [s |-> s, item |-> None]
      [] s.text_action = "Shortener" ->
            [s |-> [s EXCEPT !.text_action = IF s.direction = "Left" THEN "Char"
                                             ELSE "Terminate",
                             !.shortener = None],
             item |-> s.shortener]
      [] OTHER ->
            IF s.chars = <<>> THEN [s |-> s, item |-> None]
            ELSE LET ch == Head(s.chars)
                     ch_width == CharWidth(ch)
                     width == s.accumulated_len + ch_width
                     advanced == [s EXCEPT !.chars = Tail(s.chars),
                                           !.accumulated_len = width]
                 IN  IF width > s.max_width
                     THEN [s |-> [advanced EXCEPT !.text_action = "Terminate"],
                           item |-> s.shortener]
                     ELSE IF width = s.max_width /\ s.shortener # None
                     THEN [s |-> [advanced EXCEPT !.text_action = "Terminate"],
                           item |-> IF Tail(s.chars) # <<>> THEN s.shortener
                                    ELSE Some(ch)]
                     ELSE [s |-> [advanced EXCEPT
                                     !.text_action = IF ch_width = 2 THEN "Spacer"
                                                     ELSE @],
                           item |-> Some(ch)]

\* A shortener over every text, width, direction and shortener, before the
\* first call of next().
ShortenerInit ==
    /\ \E n \in 0..MaxTextLen :
          \E text \in [1..n -> TextChars], max_width \in 0..MaxWidth,
             direction \in {"Left", "Right"}, shortener \in Shorteners :
              str_shortener = [text |-> text, shortener |-> shortener,
                               iter |-> StrShortenerNew(text, max_width, direction,
                                                        shortener),
                               collected |-> <<>>, done |-> FALSE]
    /\ ShortenerOthersIdle

\* One call of next() by collect(), which stops at the first None.
ShortenerNext ==
    /\ ~str_shortener.done
    /\ LET r == StrShortenerNext(str_shortener.iter)
       IN  str_shortener' = [str_shortener EXCEPT
                                !.iter = r.s,
                                !.collected = IF r.item = None THEN @
                                              ELSE Append(@, r.item[1]),
                                !.done = (r.item = None)]
    /\ UNCHANGED ShortenerOthers

SpecShortener == ShortenerInit /\ [][ShortenerNext]_vars

\* The display width of a text.
RECURSIVE TextWidth(_)
TextWidth(text) ==
    IF text = <<>> THEN 0 ELSE CharWidth(Head(text)) + TextWidth(Tail(text))

\* The text with one spacer after every double-width character.
RECURSIVE WithSpacers(_)
WithSpacers(text) ==
    IF text = <<>> THEN <<>>
    ELSE (IF CharWidth(Head(text)) = 2 THEN <<Head(text), 32>> ELSE <<Head(text)>>)
         \o WithSpacers(Tail(text))

(* C30: when the display width of the text is at most max_width, the       *)
(* shortener yields the whole text with one spacer after every             *)
(* double-width character and never the shortener character, with and      *)
(* without a shortener, also when the text fits exactly and ends with a    *)
(* double-width character.                                                 *)
C30_FittingTextIsYieldedWhole ==
    (str_shortener # <<>> /\ TextWidth(str_shortener.text) <= str_shortener.iter.max_width) =>
        /\ \A k \in 1..Len(str_shortener.collected) : str_shortener.collected[k] # 46
        /\ str_shortener.done => str_shortener.collected = WithSpacers(str_shortener.text)

(***************************************************************************)
(* Part 9: the command-line config overrides.                              *)
(*                                                                         *)
(* An option of the command line is a key, the value it sets, and whether  *)
(* it is TOML ("parses") and whether UiConfig::replace accepts it          *)
(* ("applies").  The config is a function from keys to values; a key no    *)
(* option has set holds 0.                                                 *)

\* The command line holds up to MaxOptions options.
MaxOptions == 3
\* Keys are 1..MaxKeys.
MaxKeys == 2
\* Values are 1..MaxOptVal.
MaxOptVal == 2
\* override_config is called up to MaxCalls times.
MaxCalls == 2

CliOptions == [key : 1 .. MaxKeys, value : 1 .. MaxOptVal,
               parses : BOOLEAN, applies : BOOLEAN]
CommandLines == UNION {[1 .. n -> CliOptions] : n \in 0 .. MaxOptions}

\* UiConfig::default()
UiConfigDefault == [k \in 1 .. MaxKeys |-> 0]

\* ParsedOptions::from_options: the options that parse, in their order.
from_options(options) == SelectSeq(options, LAMBDA option : option.parses)

\* Vec::swap_remove(index): the last element takes the place of the removed one.
swap_remove(v, at) ==
    [k \in 1 .. Len(v) - 1 |-> IF k = at + 1 THEN v[Len(v)] ELSE v[k]]

\* UiConfig::replace(parsed): Ok with the key set, or Err with the config as it was.
replace(config, option) ==
    IF option.applies
    THEN [ok |-> TRUE, config |-> [config EXCEPT ![option.key] = option.value]]
    ELSE [ok |-> FALSE, config |-> config]

\* The loop of ParsedOptions::override_config from index i on; `applied`
\* collects the options replace accepted, in the order of the calls.
RECURSIVE OverrideLoop(_, _, _, _)
OverrideLoop(i, config_options, config, applied) ==
    IF i >= Len(config_options)
    THEN [config_options |-> config_options, config |-> config, applied |-> applied]
    ELSE LET r == replace(config, config_options[i + 1])
         IN  IF r.ok
             THEN OverrideLoop(i + 1, config_options, r.config,
                               Append(applied, config_options[i + 1]))
             ELSE OverrideLoop(i, swap_remove(config_options, i), r.config, applied)

\* ParsedOptions::override_config
override_config(config_options, config) == OverrideLoop(0, config_options, config, <<>>)

\* ParsedOptions::from_options(&options.option) at startup
CliInit ==
    /\ \E options \in CommandLines :
          parsed_options = [given |-> options,
                            config_options |-> from_options(options),
                            config |-> UiConfigDefault,
                            applied |-> <<>>,
                            calls |-> 0]
    /\ CliOthersIdle

\* The config is loaded (at startup and on every reload) and the overrides
\* are applied to it.
OverrideConfig ==
    /\ parsed_options.calls < MaxCalls
    /\ LET r == override_config(parsed_options.config_options, UiConfigDefault)
       IN  parsed_options' = [parsed_options EXCEPT
                                 !.config_options = r.config_options,
                                 !.config = r.config,
                                 !.applied = r.applied,
                                 !.calls = @ + 1]
    /\ UNCHANGED CliOthers

CliNext == OverrideConfig

SpecCli == CliInit /\ [][CliNext]_vars

\* The options of the command line that parse and apply, in their order.
ValidGiven(options) == SelectSeq(options, LAMBDA option : option.parses /\ option.applies)

\* The value the last option for `key` in `options` sets, 0 without one.
LastValue(options, key) ==
    LET found == {k \in 1 .. Len(options) : options[k].key = key}
    IN  IF found = {} THEN 0
        ELSE options[CHOOSE k \in found : \A other \in found : other <= k].value

(* C39: ParsedOptions::override_config removes every option whose          *)
(* application fails and applies the remaining valid options in the order  *)
(* they were given on the command line, so that when two valid options set *)
(* the same key the later one wins, also when an invalid option precedes   *)
(* them and on every later call.                                           *)
C39_OverridesAppliedInOrder ==
    (parsed_options # <<>> /\ parsed_options.calls > 0) =>
        LET valid == ValidGiven(parsed_options.given)
        IN  /\ \A k \in 1 .. Len(parsed_options.config_options) :
                  parsed_options.config_options[k].applies
            /\ parsed_options.applied = valid
            /\ \A key \in 1 .. MaxKeys :
                  parsed_options.config[key] = LastValue(valid, key)

(***************************************************************************)
(* Part 10: the SizeInfo<u32> used to compute damage rectangles.           *)

\* `x as u32` of a whole f32 of the model: 0 for a negative value.
AsU32(x) == IF x < 0 THEN 0 ELSE x

\* From<SizeInfo<f32>> for SizeInfo<u32>
SizeInfoU32From(size_info) ==
    [width |-> AsU32(size_info.width),
     height |-> AsU32(size_info.height),
     cell_width |-> AsU32(size_info.cell_width),
     cell_height |-> AsU32(size_info.cell_height),
     padding_x |-> AsU32(size_info.padding_x),
     padding_y |-> AsU32(size_info.padding_y),
     screen_lines |-> size_info.screen_lines,
     columns |-> size_info.screen_lines]

\* A SizeInfo<f32> as SizeInfo::new makes it, not yet converted.
SizeInfoInit ==
    /\ \E viewport_size \in PhysicalSizes, font \in Fonts,
          padding_x \in 0 .. MaxPadding, padding_y \in 0 .. MaxPadding,
          dynamic \in BOOLEAN :
          size_info_u32 = [source |-> SizeInfoNew(viewport_size.width, viewport_size.height,
                                                  font.cell_width, font.cell_height,
                                                  padding_x, padding_y, dynamic),
                           converted |-> None]
    /\ SizeInfoOthersIdle

\* size_info.into()
SizeInfoInto ==
    /\ size_info_u32.converted = None
    /\ size_info_u32' = [size_info_u32 EXCEPT
                            !.converted = Some(SizeInfoU32From(size_info_u32.source))]
    /\ UNCHANGED SizeInfoOthers

SizeInfoNext == SizeInfoInto

SpecSizeInfo == SizeInfoInit /\ [][SizeInfoNext]_vars

(* C40: converting a SizeInfo<f32> into a SizeInfo<u32> preserves both     *)
(* grid dimensions: the result's screen_lines equals the source's          *)
(* screen_lines and the result's columns equals the source's columns.      *)
C40_ConversionKeepsGrid ==
    (size_info_u32 # <<>> /\ size_info_u32.converted # None) =>
        /\ size_info_u32.converted[1].screen_lines = size_info_u32.source.screen_lines
        /\ size_info_u32.converted[1].columns = size_info_u32.source.columns
============================================================================
